---- MODULE Spec2Model ----
(***************************************************************************)
(* Acorn page store: the write-ahead log of crates/acorn/src/page_store/   *)
(* wal.rs (generations, checkpoints, undo, recovery).                      *)
(*                                                                         *)
(* Spec runs the calls of WalApi one after the other, with crashes and     *)
(* reopening; SpecConc runs log_write, log_commit and checkpoint tasks of  *)
(* several threads interleaved between their lock operations.             *)
(*                                                                         *)
(* A generation file is a sequence of items; the WalIndex of an item is    *)
(* <<generation, offset>> with offset its 1-based position in the file.    *)
(* Byte buffers are opaque to the log: the k-th log_write call passes      *)
(* from = 2k-1 and to = 2k, so every buffer names the write it belongs to. *)
(***************************************************************************)
EXTENDS Integers, Sequences, FiniteSets, TLC

\* ---------------------------------------------------------------- bounds
\* the number of log_write, log_commit, undo, checkpoint and crash events of
\* a run
MaxOps == 4

\* u64::MAX of first_needed_generation, as the largest integer TLC holds.
U64_MAX == 2147483647

\* the threads that call log_write and log_commit at the same time
NumClients == 2
\* the checkpoint tasks spawned on the thread pool while they do
NumCheckpointTasks == 1

\* the largest length a CacheManager is constructed with
MaxLength == 4
\* how many page numbers the callers of a CacheManager use
NumKeys == 3

\* the largest max_num_open_segments a PhysicalStorage is configured with
MaxOpenSegments == 2
\* how many segments the folder holds
NumSegments == 2
\* the threads that share one PhysicalStorage
NumStorageThreads == 2
\* the number of read and write calls on a PhysicalStorage in a run
MaxStorageCalls == 3

\* the number of calls on a buffered Wal and its file in a run
MaxWalCalls == 6

Keys == 1 .. NumKeys
SegmentNums == 1 .. NumSegments
\* page numbers are NonZeroU16
PageNums == 1 .. 2
\* the page bodies a caller writes
Bufs == {1, 2}
StorageThreads == 1 .. NumStorageThreads
\* the page sizes a buffered Wal is initialised and loaded with
PageSizes == {1, 2}
\* the PageIds a caller logs, as <<segment_num, page_num>>
PageIds == {<<0, 10>>, <<258, 12>>}
Tids == 1 .. MaxOps
Clients == 1 .. NumClients
CheckpointTasks == NumClients + 1 .. NumClients + NumCheckpointTasks
\* the <<page_address, offset>> pairs a caller writes to
WriteTargets == {<<1, 0>>, <<2, 0>>}

VARIABLES
    files,            \* the folder: gen_num -> [items, flushed]
    generations,      \* GenerationQueue.generations, as gen_nums
    current_gen_num,  \* GenerationQueue.current_gen_num
    state,            \* State: [dirty_pages, transactions]
    phase,            \* "closed", "opened" (after open), "running"
    checkpoints,      \* the checkpoint tasks that have rotated and not yet logged
    out,              \* what the last call returned and handed to its handle
    env,              \* the callers: writes issued, transactions begun, and what
                      \* they wrote since create and since cache_did_flush
    threads,          \* per thread: the call it is in and how far it has got
    locks,            \* who holds the queue's RwLock and the current file's Mutex
    periodic,         \* the periodic checkpoint task and its Timer
    mgr,              \* a CacheManager: [slow, fast_cap, fast, graveyard_cap, graveyard]
    storage,          \* a PhysicalStorage with its folder and DescriptorCache
    bwal              \* a buffered Wal (src/acorn/src/wal.rs) with its file

vars == <<files, generations, current_gen_num, state, phase, checkpoints, out, env,
          threads, locks, periodic, mgr, storage, bwal>>

\* the write-ahead log apart from what its last call returned
walState == <<files, generations, current_gen_num, state, phase, checkpoints, env,
             threads, locks, periodic>>

\* the components beside the write-ahead log
others == <<mgr, storage, bwal>>

\* ------------------------------------------------------------ Option, maps
None == <<>>
Some(x) == <<x>>

EmptyMap == <<>>
MapPut(m, k, v) == [x \in (DOMAIN m) \cup {k} |-> IF x = k THEN v ELSE m[x]]
MapRemove(m, k) == [x \in (DOMAIN m) \ {k} |-> m[x]]

\* WalIndex is ordered lexicographically (generation, offset).
IndexLT(a, b) == a[1] < b[1] \/ (a[1] = b[1] /\ a[2] < b[2])
IndexMin(S) == CHOOSE a \in S : \A b \in S : a = b \/ IndexLT(a, b)

Range(q) == {q[i] : i \in DOMAIN q}

SetMin(S) == CHOOSE a \in S : \A b \in S : a <= b
SetMax(S) == CHOOSE a \in S : \A b \in S : a >= b

RECURSIVE SortedSeq(_)
SortedSeq(S) == IF S = {} THEN <<>> ELSE <<SetMin(S)>> \o SortedSeq(S \ {SetMin(S)})

\* the orders in which a HashMap may yield the keys S
KeyOrders(S) ==
    {q \in [1 .. Cardinality(S) -> S] : \A i, j \in DOMAIN q : i # j => q[i] # q[j]}

\* ------------------------------------------------------------------ items
WriteItem(td, page_address, offset, from, to) ==
    [kind |-> "Write", transaction_id |-> td.transaction_id,
     prev_transaction_item |-> td.prev_transaction_item,
     page_address |-> page_address, offset |-> offset, from |-> from, to |-> to]

CommitItem(td) ==
    [kind |-> "Commit", transaction_id |-> td.transaction_id,
     prev_transaction_item |-> td.prev_transaction_item]

CheckpointItem(st) ==
    [kind |-> "Checkpoint", dirty_pages |-> st.dirty_pages,
     transactions |-> st.transactions]

\* ------------------------------------------------------------------ State
DefaultState == [dirty_pages |-> EmptyMap, transactions |-> EmptyMap]

\* faulty variant of State::track_transaction: an entry that exists keeps its
\* last_index
track_transaction_stale(st, index, transaction_id) ==
    IF transaction_id \in DOMAIN st.transactions
    THEN st
    ELSE [st EXCEPT !.transactions =
            MapPut(@, transaction_id, [first_gen |-> index[1], last_index |-> index])]

track_transaction(st, index, transaction_id) ==
    IF transaction_id \in DOMAIN st.transactions
    THEN [st EXCEPT !.transactions[transaction_id].last_index = index]
    ELSE [st EXCEPT !.transactions =
            MapPut(@, transaction_id, [first_gen |-> index[1], last_index |-> index])]

complete_transaction(st, transaction_id) ==
    [st EXCEPT !.transactions = MapRemove(@, transaction_id)]

\* faulty variant of State::track_write: insert in place of
\* entry().or_insert(), so a later write replaces the page's entry
track_write_overwrite(st, index, data) ==
    [track_transaction(st, index, data.transaction_id)
        EXCEPT !.dirty_pages = MapPut(@, data.page_address, index)]

track_write(st, index, data) ==
    LET st1 == track_transaction(st, index, data.transaction_id)
    IN  IF data.page_address \in DOMAIN st1.dirty_pages
        THEN st1
        ELSE [st1 EXCEPT !.dirty_pages = MapPut(@, data.page_address, index)]

\* faulty variant of State::cache_did_flush: the transactions are cleared and
\* dirty_pages is left as it is
state_cache_did_flush_transactions(st) == [st EXCEPT !.transactions = EmptyMap]

state_cache_did_flush(st) == [st EXCEPT !.dirty_pages = EmptyMap]

first_needed_generation(st) ==
    IF DOMAIN st.transactions = {}
    THEN U64_MAX
    ELSE SetMin({st.transactions[t].first_gen : t \in DOMAIN st.transactions})

handle_item(st, index, item) ==
    CASE item.kind = "Write" -> track_write(st, index, item)
      [] item.kind = "Commit" -> complete_transaction(st, item.transaction_id)
      [] OTHER -> st

\* ------------------------------------------------- generation files, folder
NewFile == [items |-> <<>>, flushed |-> 0]

next_offset(file) == Len(file.items) + 1
push_item(file, item) == [file EXCEPT !.items = Append(@, item)]
flush(file) == [file EXCEPT !.flushed = Len(file.items)]

open_wal_file(fs, gen_num) ==
    IF gen_num \in DOMAIN fs THEN fs ELSE MapPut(fs, gen_num, NewFile)
delete_wal_file(fs, gen_num) == MapRemove(fs, gen_num)

RECURSIVE delete_wal_files(_, _)
delete_wal_files(fs, gen_nums) ==
    IF gen_nums = <<>> THEN fs
    ELSE delete_wal_files(delete_wal_file(fs, Head(gen_nums)), Tail(gen_nums))

\* ------------------------------------------------------------ appending
create_transaction_data(st, transaction_id) ==
    [transaction_id |-> transaction_id,
     prev_transaction_item |->
        IF transaction_id \in DOMAIN st.transactions
        THEN Some(st.transactions[transaction_id].last_index)
        ELSE None]

create_write_data(st, log) ==
    WriteItem(create_transaction_data(st, log.transaction_id),
              log.page_address, log.offset, Some(log.from), log.to)

create_undo_write_data(st, undo_log) ==
    WriteItem(create_transaction_data(st, undo_log.transaction_id),
              undo_log.page_address, undo_log.offset, None, undo_log.to)

\* w is [files, state, ...]; the item goes to the current generation.
push_raw_item(w, item, cur) ==
    LET index == <<cur, next_offset(w.files[cur])>>
    IN  [w EXCEPT !.state = handle_item(@, index, item),
                  !.files[cur] = push_item(@, item),
                  !.index = index]

\* faulty variant of push_raw_item_none: State handles the item before the
\* current generation is looked up
push_raw_item_none_handled(w, item, cur) ==
    [w EXCEPT !.state = handle_item(@, <<cur, 1>>, item)]

\* push_raw_item when current_generation() is None: the let-else returns
\* Err(WalNotInitialized) before an index is taken
push_raw_item_none(w, item, cur) == w

\* push_raw_item when push_item returns an error: State has handled the item,
\* the file holds nothing new, and the ? operator returns the error
push_raw_item_err(w, item, cur) ==
    LET index == <<cur, next_offset(w.files[cur])>>
    IN  [w EXCEPT !.state = handle_item(@, index, item)]

flush_impl(fs, gens) ==
    IF gens = <<>> THEN fs
    ELSE [fs EXCEPT ![gens[Len(gens)]] = flush(@)]

World(fs, st) == [files |-> fs, state |-> st, index |-> None, ops |-> <<>>]

\* ---------------------------------------------------------- GenerationQueue
\* faulty variant of push_generation: current_gen_num is left as it was
push_generation_stale(q, gen_num) ==
    [generations |-> Append(q.generations, gen_num),
     current_gen_num |-> q.current_gen_num]

push_generation(q, gen_num) ==
    [generations |-> Append(q.generations, gen_num),
     current_gen_num |-> IF gen_num > q.current_gen_num THEN gen_num
                         ELSE q.current_gen_num]

RECURSIVE open_generations(_, _)
open_generations(q, wal_files) ==
    IF wal_files = <<>> THEN q
    ELSE open_generations(push_generation(q, Head(wal_files)), Tail(wal_files))

NewQueue == [generations |-> <<>>, current_gen_num |-> 0]

\* ------------------------------------------------------------- checkpoint
log_checkpoint(fs, gens, st) ==
    [fs EXCEPT ![gens[Len(gens)]] = push_item(@, CheckpointItem(st))]

\* faulty variant of delete_gens: gen_num > first_needed in place of >=, so the
\* first needed generation is collected too
RECURSIVE delete_gens_above(_, _, _, _)
delete_gens_above(gens, cur, first_needed, k) ==
    IF k > Len(gens) THEN <<>>
    ELSE IF gens[k] > first_needed \/ gens[k] = cur THEN <<>>
    ELSE <<gens[k]>> \o delete_gens_above(gens, cur, first_needed, k + 1)

\* the gen_nums cleanup_generations collects, scanning the queue from index k
RECURSIVE delete_gens(_, _, _, _)
delete_gens(gens, cur, first_needed, k) ==
    IF k > Len(gens) THEN <<>>
    ELSE IF gens[k] >= first_needed \/ gens[k] = cur THEN <<>>
    ELSE <<gens[k]>> \o delete_gens(gens, cur, first_needed, k + 1)

\* nfail = 0: every delete_wal_file succeeds; nfail = n: the n-th one fails.
cleanup_generations(fs, gens, cur, st, nfail) ==
    LET dels == delete_gens(gens, cur, first_needed_generation(st), 1)
        npop == IF nfail = 0 THEN Len(dels) ELSE nfail
        ndel == IF nfail = 0 THEN Len(dels) ELSE nfail - 1
    IN  [files |-> delete_wal_files(fs, SubSeq(dels, 1, ndel)),
         generations |-> SubSeq(gens, npop + 1, Len(gens)),
         popped |-> {dels[i] : i \in 1 .. npop},
         unlinked |-> {dels[i] : i \in 1 .. ndel},
         ok |-> nfail = 0]

\* faulty variant of checkpoint_rotate: the old generation is not flushed
\* before the new one becomes current
checkpoint_rotate_unflushed(fs, gens, cur, st, fail, nfail) ==
    LET nothing == [files |-> fs, generations |-> gens, current_gen_num |-> cur,
                    popped |-> {}, unlinked |-> {}, ok |-> FALSE]
        gen_num == cur + 1
        q == push_generation([generations |-> gens, current_gen_num |-> cur], gen_num)
        c == cleanup_generations(open_wal_file(fs, gen_num), q.generations,
                                 q.current_gen_num, st, nfail)
    IN  CASE fail \in {"flush", "open"} -> nothing
          [] OTHER -> [files |-> c.files, generations |-> c.generations,
                       current_gen_num |-> q.current_gen_num,
                       popped |-> c.popped, unlinked |-> c.unlinked, ok |-> c.ok]

\* The part of checkpoint that holds the queue's write lock. fail names the
\* I/O call that returns an error, if any.
checkpoint_rotate(fs, gens, cur, st, fail, nfail) ==
    LET nothing == [files |-> fs, generations |-> gens, current_gen_num |-> cur,
                    popped |-> {}, unlinked |-> {}, ok |-> FALSE]
        fs1 == flush_impl(fs, gens)
        gen_num == cur + 1
        q == push_generation([generations |-> gens, current_gen_num |-> cur], gen_num)
        c == cleanup_generations(open_wal_file(fs1, gen_num), q.generations,
                                 q.current_gen_num, st, nfail)
    IN  CASE fail = "flush" -> nothing
          [] fail = "open" -> [nothing EXCEPT !.files = fs1]
          [] OTHER -> [files |-> c.files, generations |-> c.generations,
                       current_gen_num |-> q.current_gen_num,
                       popped |-> c.popped, unlinked |-> c.unlinked, ok |-> c.ok]

\* the outcomes the I/O of a rotation can have in this state, as <<fail, nfail>>
RotateOutcomes ==
    LET q == push_generation([generations |-> generations,
                              current_gen_num |-> current_gen_num], current_gen_num + 1)
        dels == delete_gens(q.generations, q.current_gen_num,
                            first_needed_generation(state), 1)
    IN  {<<"none", 0>>, <<"open", 0>>}
        \cup (IF generations = <<>> THEN {} ELSE {<<"flush", 0>>})
        \cup {<<"delete", n>> : n \in 1 .. Len(dels)}

\* ------------------------------------------------------------------- undo
create_undo_log(write) ==
    IF write.from = None THEN <<>>
    ELSE <<[transaction_id |-> write.transaction_id,
            page_address |-> write.page_address,
            offset |-> write.offset, to |-> write.from[1]]>>

SeqContains(s, x) == \E i \in DOMAIN s : s[i] = x

\* faulty variant of scan_items_reverse: iter_items in place of
\* iter_items_reverse
RECURSIVE scan_items_forward(_, _, _, _, _)
scan_items_forward(items, gen_num, off, transaction_ids, lowest_index) ==
    IF off = 0 THEN [logs |-> <<>>, stop |-> FALSE]
    ELSE IF IndexLT(<<gen_num, off>>, lowest_index) THEN [logs |-> <<>>, stop |-> TRUE]
    ELSE LET item == items[off]
             here == IF item.kind = "Write"
                        /\ SeqContains(transaction_ids, item.transaction_id)
                     THEN create_undo_log(item) ELSE <<>>
             rest == scan_items_forward(items, gen_num, off - 1,
                                        transaction_ids, lowest_index)
         IN  [logs |-> rest.logs \o here, stop |-> rest.stop]

\* one generation file, from offset off down to its head: the undo logs found,
\* and whether an index below lowest_index ended the scan
RECURSIVE scan_items_reverse(_, _, _, _, _)
scan_items_reverse(items, gen_num, off, transaction_ids, lowest_index) ==
    IF off = 0 THEN [logs |-> <<>>, stop |-> FALSE]
    ELSE IF IndexLT(<<gen_num, off>>, lowest_index) THEN [logs |-> <<>>, stop |-> TRUE]
    ELSE LET item == items[off]
             here == IF item.kind = "Write"
                        /\ SeqContains(transaction_ids, item.transaction_id)
                     THEN create_undo_log(item) ELSE <<>>
             rest == scan_items_reverse(items, gen_num, off - 1,
                                        transaction_ids, lowest_index)
         IN  [logs |-> here \o rest.logs, stop |-> rest.stop]

\* the queue from position k down to its front
RECURSIVE scan_gens_reverse(_, _, _, _, _)
scan_gens_reverse(fs, gens, k, transaction_ids, lowest_index) ==
    IF k = 0 THEN <<>>
    ELSE LET r == scan_items_reverse(fs[gens[k]].items, gens[k],
                                     Len(fs[gens[k]].items),
                                     transaction_ids, lowest_index)
         IN  IF r.stop THEN r.logs
             ELSE r.logs \o scan_gens_reverse(fs, gens, k - 1,
                                              transaction_ids, lowest_index)

log_undo(w, undo_log, cur) ==
    push_raw_item(w, create_undo_write_data(w.state, undo_log), cur)

\* faulty variant of apply_undo_log: handle is invoked with the index the
\* compensation would get, and nothing is appended
apply_undo_log_unlogged(w, log, cur) ==
    [w EXCEPT !.ops = Append(@, [index |-> <<cur, next_offset(w.files[cur])>>,
                                 page_address |-> log.page_address,
                                 offset |-> log.offset, buf |-> log.to])]

apply_undo_log(w, log, cur) ==
    LET p == log_undo(w, log, cur)
    IN  [p EXCEPT !.ops = Append(@, [index |-> p.index,
                                     page_address |-> log.page_address,
                                     offset |-> log.offset, buf |-> log.to])]

RECURSIVE apply_undo_logs(_, _, _)
apply_undo_logs(w, logs, cur) ==
    IF logs = <<>> THEN w
    ELSE apply_undo_logs(apply_undo_log(w, Head(logs), cur), Tail(logs), cur)

\* faulty variant of undo_commit: the transaction is completed in State and no
\* Commit item is appended
undo_commit_unlogged(w, tid, cur) ==
    [w EXCEPT !.state = complete_transaction(@, tid)]

undo_commit(w, tid, cur) ==
    LET p == push_raw_item(w, CommitItem(create_transaction_data(w.state, tid)), cur)
    IN  [p EXCEPT !.state = complete_transaction(@, tid)]

RECURSIVE undo_commits(_, _, _)
undo_commits(w, transaction_ids, cur) ==
    IF transaction_ids = <<>> THEN w
    ELSE undo_commits(undo_commit(w, Head(transaction_ids), cur),
                      Tail(transaction_ids), cur)

undo_all(w, transaction_ids, gens, cur) ==
    LET last_indices ==
            {w.state.transactions[transaction_ids[i]].last_index :
                i \in {j \in DOMAIN transaction_ids :
                          transaction_ids[j] \in DOMAIN w.state.transactions}}
    IN  IF last_indices = {} THEN w
        ELSE LET lowest_index == IndexMin(last_indices)
                 compensation_items ==
                     scan_gens_reverse(w.files, gens, Len(gens),
                                       transaction_ids, lowest_index)
             IN  undo_commits(apply_undo_logs(w, compensation_items, cur),
                              transaction_ids, cur)

\* the compensation_items of undo_all
compensation_items(w, transaction_ids, gens) ==
    LET last_indices ==
            {w.state.transactions[transaction_ids[i]].last_index :
                i \in {j \in DOMAIN transaction_ids :
                          transaction_ids[j] \in DOMAIN w.state.transactions}}
    IN  IF last_indices = {} THEN <<>>
        ELSE scan_gens_reverse(w.files, gens, Len(gens), transaction_ids,
                               IndexMin(last_indices))

\* undo_all when the push_item of compensation number k fails: log_undo
\* returns the error through apply_undo_log's ? before handle is reached, and
\* undo_all through its own ? before the next compensation and the Commits
undo_all_err(w, transaction_ids, gens, cur, k) ==
    LET items == compensation_items(w, transaction_ids, gens)
        done == apply_undo_logs(w, SubSeq(items, 1, k - 1), cur)
    IN  push_raw_item_err(done, create_undo_write_data(done.state, items[k]), cur)

\* --------------------------------------------------------------- recovery
read_initial_state(items) ==
    LET cps == {i \in DOMAIN items : items[i].kind = "Checkpoint"}
    IN  IF cps = {} THEN DefaultState
        ELSE [dirty_pages |-> items[SetMin(cps)].dirty_pages,
              transactions |-> items[SetMin(cps)].transactions]

\* faulty variant of recover_state: the rescanned items are indexed in
\* generation 0 whatever gen_num is
RECURSIVE recover_state_generation_zero(_, _, _, _)
recover_state_generation_zero(st, items, gen_num, off) ==
    IF off > Len(items) THEN st
    ELSE recover_state_generation_zero(handle_item(st, <<0, off>>, items[off]),
                                       items, gen_num, off + 1)

RECURSIVE recover_state(_, _, _, _)
recover_state(st, items, gen_num, off) ==
    IF off > Len(items) THEN st
    ELSE recover_state(handle_item(st, <<gen_num, off>>, items[off]),
                       items, gen_num, off + 1)

\* faulty variant of redo_write: index <= first-dirty index returns early, so
\* the write that made the page dirty is not redone
redo_write_strict(st, index, data) ==
    IF data.page_address \notin DOMAIN st.dirty_pages THEN <<>>
    ELSE IF ~IndexLT(st.dirty_pages[data.page_address], index) THEN <<>>
    ELSE <<[index |-> index, page_address |-> data.page_address,
            offset |-> data.offset, buf |-> data.to]>>

redo_write(st, index, data) ==
    IF data.page_address \notin DOMAIN st.dirty_pages THEN <<>>
    ELSE IF IndexLT(index, st.dirty_pages[data.page_address]) THEN <<>>
    ELSE <<[index |-> index, page_address |-> data.page_address,
            offset |-> data.offset, buf |-> data.to]>>

\* faulty variant of redo: the items are visited from the tail
RECURSIVE redo_backwards(_, _, _, _)
redo_backwards(st, items, gen_num, off) ==
    IF off > Len(items) THEN <<>>
    ELSE redo_backwards(st, items, gen_num, off + 1)
         \o (IF items[off].kind = "Write"
             THEN redo_write(st, <<gen_num, off>>, items[off]) ELSE <<>>)

RECURSIVE redo(_, _, _, _)
redo(st, items, gen_num, off) ==
    IF off > Len(items) THEN <<>>
    ELSE (IF items[off].kind = "Write"
          THEN redo_write(st, <<gen_num, off>>, items[off]) ELSE <<>>)
         \o redo(st, items, gen_num, off + 1)

\* all_tids: the order in which State.transactions yields its keys
recover(fs, gens, cur, all_tids) ==
    LET items == fs[cur].items
        st == recover_state(read_initial_state(items), items, cur, 1)
        w == [World(fs, st) EXCEPT !.ops = redo(st, items, cur, 1)]
    IN  undo_all(w, all_tids, gens, cur)

RecoveredState(fs, cur) ==
    recover_state(read_initial_state(fs[cur].items), fs[cur].items, cur, 1)

\* ----------------------------------------------------------------- specification
\* a thread outside any call
IdleThread == [pc |-> "idle", op |-> "none", item |-> None, index |-> None,
               flushed_gen |-> None]

\* readers: the threads holding generations.read(); file: the thread holding the
\* current generation's Mutex, if any
FreeLocks == [readers |-> {}, file |-> None]

\* pc: "none" (no process), "wait" (in timer.wait()), "rotated" (in checkpoint,
\* before log_checkpoint), "done" (the loop has ended); cancelled: the Timer's
\* handle has cancelled it; last, failures: how the attempts so far ended
NoTask == [pc |-> "none", cancelled |-> FALSE, last |-> "none", failures |-> 0]

\* Wal::new: the Timer is created and periodic_checkpoint_task is spawned
SpawnedTask == [NoTask EXCEPT !.pc = "wait"]

WalClosed ==
    /\ files = EmptyMap
    /\ generations = <<>>
    /\ current_gen_num = 0
    /\ state = DefaultState
    /\ phase = "closed"
    /\ checkpoints = {}
    /\ out = [op |-> "none"]
    /\ env = [ops |-> 0, nwrites |-> 0, next_tid |-> 1, active |-> {},
              unflushed |-> {}, must_redo |-> {}, dirtied |-> {}, tracked |-> FALSE,
              spawned |-> 0, scheduling |-> {}]
    /\ threads = [th \in Clients \cup CheckpointTasks |-> IdleThread]
    /\ locks = FreeLocks
    /\ periodic = NoTask

\* no write-ahead log yet, and no other component constructed
Init ==
    /\ WalClosed
    /\ mgr = None
    /\ storage = None
    /\ bwal = None

Quiet == [op |-> "other"]

\* Wal::create on an empty folder
Create ==
    /\ phase = "closed"
    /\ DOMAIN files = {}
    /\ files' = log_checkpoint(open_wal_file(EmptyMap, 0), <<0>>, DefaultState)
    /\ state' = DefaultState
    /\ generations' = push_generation(NewQueue, 0).generations
    /\ current_gen_num' = push_generation(NewQueue, 0).current_gen_num
    /\ phase' = "running"
    /\ out' = Quiet
    /\ env' = [env EXCEPT !.dirtied = {}, !.tracked = TRUE]
    /\ periodic' = SpawnedTask
    /\ UNCHANGED <<others, checkpoints, threads, locks>>

\* Wal::open on the files the folder holds
Open ==
    /\ phase = "closed"
    /\ LET q == open_generations(NewQueue, SortedSeq(DOMAIN files))
       IN  /\ generations' = q.generations
           /\ current_gen_num' = q.current_gen_num
    /\ state' = DefaultState
    /\ phase' = "opened"
    /\ out' = [op |-> "open"]
    /\ periodic' = SpawnedTask
    /\ UNCHANGED <<others, files, env, checkpoints, threads, locks>>

LogWrite(t, tgt) ==
    /\ phase = "running"
    /\ env.ops < MaxOps
    /\ t \in env.active \cup {env.next_tid}
    /\ LET k == env.nwrites + 1
           log == [transaction_id |-> t, page_address |-> tgt[1], offset |-> tgt[2],
                   from |-> 2 * k - 1, to |-> 2 * k]
           r == push_raw_item(World(files, state), create_write_data(state, log),
                              current_gen_num)
       IN  /\ files' = r.files
           /\ state' = r.state
           /\ env' = [env EXCEPT !.ops = @ + 1, !.nwrites = k,
                                 !.active = @ \cup {t},
                                 !.next_tid = IF t = @ THEN @ + 1 ELSE @,
                                 !.unflushed = @ \cup {<<t, r.index>>},
                                 !.dirtied = @ \cup {<<tgt[1], r.index>>}]
    /\ out' = Quiet
    /\ UNCHANGED <<others, periodic, generations, current_gen_num, phase, checkpoints, threads, locks>>

LogCommit(t) ==
    /\ phase = "running"
    /\ env.ops < MaxOps
    /\ t \in env.active
    /\ LET r == push_raw_item(World(files, state),
                              CommitItem(create_transaction_data(state, t)),
                              current_gen_num)
       IN  /\ files' = flush_impl(r.files, generations)
           /\ state' = r.state
    /\ env' = [env EXCEPT !.ops = @ + 1, !.active = @ \ {t},
                          !.must_redo = @ \cup {u[2] : u \in {v \in env.unflushed : v[1] = t}},
                          !.unflushed = {v \in @ : v[1] # t}]
    /\ out' = Quiet
    /\ UNCHANGED <<others, periodic, generations, current_gen_num, phase, checkpoints, threads, locks>>

\* log_write whose push_item fails with an I/O error
LogWriteErr(t, tgt) ==
    /\ phase = "running"
    /\ env.ops < MaxOps
    /\ t \in env.active \cup {env.next_tid}
    /\ LET k == env.nwrites + 1
           log == [transaction_id |-> t, page_address |-> tgt[1], offset |-> tgt[2],
                   from |-> 2 * k - 1, to |-> 2 * k]
           r == push_raw_item_err(World(files, state), create_write_data(state, log),
                                  current_gen_num)
       IN  state' = r.state
    /\ env' = [env EXCEPT !.ops = @ + 1, !.nwrites = @ + 1,
                          !.active = @ \cup {t},
                          !.next_tid = IF t = @ THEN @ + 1 ELSE @]
    /\ out' = [op |-> "error", call |-> "log_write", err |-> "File",
               transaction_id |-> t, page_address |-> tgt[1], before |-> state]
    /\ UNCHANGED <<others, periodic, files, generations, current_gen_num, phase, checkpoints, threads,
                   locks>>

\* log_commit whose push_item fails with an I/O error: flush_impl is not reached
LogCommitErr(t) ==
    /\ phase = "running"
    /\ env.ops < MaxOps
    /\ t \in env.active
    /\ LET r == push_raw_item_err(World(files, state),
                                  CommitItem(create_transaction_data(state, t)),
                                  current_gen_num)
       IN  state' = r.state
    /\ env' = [env EXCEPT !.ops = @ + 1]
    /\ out' = [op |-> "error", call |-> "log_commit", err |-> "File",
               transaction_id |-> t, page_address |-> 0, before |-> state]
    /\ UNCHANGED <<others, periodic, files, generations, current_gen_num, phase, checkpoints, threads,
                   locks>>

\* log_write on an empty queue
LogWriteNone(t, tgt) ==
    /\ phase = "opened"
    /\ generations = <<>>
    /\ LET log == [transaction_id |-> t, page_address |-> tgt[1], offset |-> tgt[2],
                   from |-> 1, to |-> 2]
           r == push_raw_item_none(World(files, state), create_write_data(state, log),
                                   current_gen_num)
       IN  /\ files' = r.files
           /\ state' = r.state
    /\ out' = [op |-> "error", call |-> "log_write", err |-> "WalNotInitialized"]
    /\ UNCHANGED <<others, periodic, generations, current_gen_num, phase, checkpoints, env, threads,
                   locks>>

\* log_commit on an empty queue: flush_impl is not reached
LogCommitNone(t) ==
    /\ phase = "opened"
    /\ generations = <<>>
    /\ LET r == push_raw_item_none(World(files, state),
                                   CommitItem(create_transaction_data(state, t)),
                                   current_gen_num)
       IN  /\ files' = r.files
           /\ state' = r.state
    /\ out' = [op |-> "error", call |-> "log_commit", err |-> "WalNotInitialized"]
    /\ UNCHANGED <<others, periodic, generations, current_gen_num, phase, checkpoints, env, threads,
                   locks>>

\* recover on an empty queue: current_generation() is None and the error is
\* returned before read_initial_state
RecoverNone ==
    /\ phase = "opened"
    /\ generations = <<>>
    /\ out' = [op |-> "error", call |-> "recover", err |-> "WalNotInitialized"]
    /\ UNCHANGED <<others, periodic, files, generations, current_gen_num, state, phase, checkpoints, env,
                   threads, locks>>

CacheDidFlush ==
    /\ phase = "running"
    /\ env.ops < MaxOps
    /\ state.dirty_pages # EmptyMap
    /\ state' = state_cache_did_flush(state)
    /\ env' = [env EXCEPT !.unflushed = {}, !.must_redo = {}, !.dirtied = {}]
    /\ out' = [op |-> "cache_did_flush"]
    /\ UNCHANGED <<others, periodic, files, generations, current_gen_num, phase, checkpoints, threads, locks>>

\* checkpoint up to the release of the queue's write lock
CheckpointRotate(fail, nfail) ==
    /\ phase \in {"opened", "running"}
    /\ env.ops < MaxOps
    /\ <<fail, nfail>> \in RotateOutcomes
    /\ LET r == checkpoint_rotate(files, generations, current_gen_num, state, fail, nfail)
       IN  /\ files' = r.files
           /\ generations' = r.generations
           /\ current_gen_num' = r.current_gen_num
           /\ checkpoints' =
                 IF r.ok
                 THEN checkpoints \cup
                        {[gen_num |-> current_gen_num + 1,
                          first_needed |-> first_needed_generation(state)]}
                 ELSE checkpoints
           /\ out' = [op |-> "rotate", ok |-> r.ok,
                      popped |-> Range(generations) \ Range(r.generations),
                      unlinked |-> (DOMAIN files) \ (DOMAIN r.files),
                      first_needed |-> first_needed_generation(state)]
    /\ env' = [env EXCEPT !.ops = @ + 1]
    /\ UNCHANGED <<others, periodic, state, phase, threads, locks>>

\* the rest of checkpoint: log_checkpoint, whose push_item succeeds or fails
CheckpointLog(task, ok) ==
    /\ task \in checkpoints
    /\ checkpoints' = checkpoints \ {task}
    /\ files' = IF ok THEN log_checkpoint(files, generations, state) ELSE files
    /\ out' = [op |-> "checkpoint", ok |-> ok, task |-> task]
    /\ UNCHANGED <<others, periodic, generations, current_gen_num, state, phase, env, threads, locks>>

Undo(t) ==
    /\ phase = "running"
    /\ env.ops < MaxOps
    /\ t \in env.active
    /\ LET fs == flush_impl(files, generations)
           r == undo_all(World(fs, state), <<t>>, generations, current_gen_num)
       IN  /\ files' = r.files
           /\ state' = r.state
           /\ out' = [op |-> "undo", ops |-> r.ops, victims |-> <<t>>,
                      pre_len |-> Len(files[current_gen_num].items)]
           /\ env' = [env EXCEPT
                        !.ops = @ + 1, !.active = @ \ {t},
                        !.unflushed = {v \in @ : v[1] # t},
                        !.dirtied = @ \cup
                           {<<r.files[current_gen_num].items[i].page_address,
                              <<current_gen_num, i>>>> :
                              i \in {j \in DOMAIN r.files[current_gen_num].items :
                                        /\ j > Len(files[current_gen_num].items)
                                        /\ r.files[current_gen_num].items[j].kind
                                              = "Write"}}]
    /\ UNCHANGED <<others, periodic, generations, current_gen_num, phase, checkpoints, threads, locks>>

Recover ==
    /\ phase = "opened" \/ (phase = "running" /\ out.op = "recover")
    /\ generations # <<>>
    /\ \E all_tids \in KeyOrders(DOMAIN RecoveredState(files, current_gen_num).transactions) :
         LET r == recover(files, generations, current_gen_num, all_tids)
         IN  /\ files' = r.files
             /\ state' = r.state
             /\ out' = [op |-> "recover", ops |-> r.ops, victims |-> all_tids,
                        pre_len |-> Len(files[current_gen_num].items),
                        redo_dirty |-> RecoveredState(files, current_gen_num).dirty_pages,
                        after |-> out.op,
                        prev_victims |-> IF out.op = "recover" THEN out.victims
                                         ELSE <<>>]
    /\ phase' = "running"
    /\ UNCHANGED <<others, periodic, generations, current_gen_num, env, checkpoints, threads, locks>>

\* per file, a length between what was flushed and what was appended
RECURSIVE SurvivingLengths(_)
SurvivingLengths(fs) ==
    IF DOMAIN fs = {} THEN {EmptyMap}
    ELSE LET g == SetMax(DOMAIN fs)
         IN  {MapPut(m, g, n) : m \in SurvivingLengths(MapRemove(fs, g)),
                                n \in fs[g].flushed .. Len(fs[g].items)}

\* The process dies: of each file the flushed items survive, and any number of
\* the items appended since.
Crash ==
    /\ phase # "closed"
    /\ env.ops < MaxOps
    /\ \E keep \in SurvivingLengths(files) :
         files' = [g \in DOMAIN files |->
                     [items |-> SubSeq(files[g].items, 1, keep[g]),
                      flushed |-> keep[g]]]
    /\ generations' = <<>>
    /\ current_gen_num' = 0
    /\ state' = DefaultState
    /\ phase' = "closed"
    /\ checkpoints' = {}
    /\ out' = Quiet
    /\ env' = [env EXCEPT !.ops = @ + 1, !.active = {}, !.unflushed = {},
                          !.dirtied = {}, !.tracked = FALSE,
                          !.spawned = 0, !.scheduling = {}]
    /\ periodic' = NoTask
    /\ UNCHANGED <<others, threads, locks>>

Next ==
    \/ Create
    \/ Open
    \/ \E t \in Tids, tgt \in WriteTargets : LogWrite(t, tgt)
    \/ \E t \in Tids : LogCommit(t)
    \/ CacheDidFlush
    \/ \E fail \in {"none", "flush", "open", "delete"}, nfail \in 0 .. MaxOps :
          CheckpointRotate(fail, nfail)
    \/ \E task \in checkpoints, ok \in BOOLEAN : CheckpointLog(task, ok)
    \/ \E t \in Tids : Undo(t)
    \/ Recover
    \/ \E t \in Tids, tgt \in WriteTargets : LogWriteNone(t, tgt)
    \/ \E t \in Tids : LogCommitNone(t)
    \/ RecoverNone
    \/ Crash

Spec == Init /\ [][Next]_vars

\* faulty variant of checkpoint_ok: a failed checkpoint ends the loop
checkpoint_ok_propagate(ok) == IF ok THEN "wait" ELSE "done"

\* checkpoint_ok: the error of a failed checkpoint is logged and dropped, and
\* the while loop of periodic_checkpoint_task goes back to timer.wait()
checkpoint_ok(ok) == "wait"

\* timer.wait() returns true and checkpoint runs up to the release of the
\* queue's write lock; an error in it ends the attempt
PeriodicRotate(fail, nfail) ==
    /\ phase \in {"opened", "running"}
    /\ env.ops < MaxOps
    /\ periodic.pc = "wait"
    /\ ~periodic.cancelled
    /\ <<fail, nfail>> \in RotateOutcomes
    /\ LET r == checkpoint_rotate(files, generations, current_gen_num, state, fail, nfail)
       IN  /\ files' = r.files
           /\ generations' = r.generations
           /\ current_gen_num' = r.current_gen_num
           /\ periodic' =
                 IF r.ok THEN [periodic EXCEPT !.pc = "rotated"]
                 ELSE [periodic EXCEPT !.pc = checkpoint_ok(FALSE), !.last = "failed",
                                       !.failures = @ + 1]
           /\ out' = [op |-> "rotate", ok |-> r.ok,
                      popped |-> Range(generations) \ Range(r.generations),
                      unlinked |-> (DOMAIN files) \ (DOMAIN r.files),
                      first_needed |-> first_needed_generation(state)]
    /\ env' = [env EXCEPT !.ops = @ + 1]
    /\ UNCHANGED <<others, state, phase, checkpoints, threads, locks>>

\* the rest of the attempt: log_checkpoint, whose push_item succeeds or fails
PeriodicLog(ok) ==
    /\ periodic.pc = "rotated"
    /\ files' = IF ok THEN log_checkpoint(files, generations, state) ELSE files
    /\ periodic' =
          IF ok THEN [periodic EXCEPT !.pc = checkpoint_ok(TRUE), !.last = "ok"]
          ELSE [periodic EXCEPT !.pc = checkpoint_ok(FALSE), !.last = "failed",
                                !.failures = @ + 1]
    /\ out' = [op |-> "checkpoint", ok |-> ok, task |-> "periodic"]
    /\ UNCHANGED <<others, generations, current_gen_num, state, phase, checkpoints, env, threads,
                   locks>>

\* the TimerHandle cancels the Timer
TimerCancel ==
    /\ periodic.pc \in {"wait", "rotated"}
    /\ ~periodic.cancelled
    /\ periodic' = [periodic EXCEPT !.cancelled = TRUE]
    /\ UNCHANGED <<others, files, generations, current_gen_num, state, phase, checkpoints, out,
                   env, threads, locks>>

\* timer.wait() returns false: the while loop ends
PeriodicExit ==
    /\ periodic.pc = "wait"
    /\ periodic.cancelled
    /\ periodic' = [periodic EXCEPT !.pc = "done"]
    /\ UNCHANGED <<others, files, generations, current_gen_num, state, phase, checkpoints, out,
                   env, threads, locks>>

\* one Wal whose checkpoints are those of its periodic task
NextTimer ==
    \/ Create
    \/ Open
    \/ \E t \in Tids, tgt \in WriteTargets : LogWrite(t, tgt)
    \/ \E t \in Tids : LogCommit(t)
    \/ \E fail \in {"none", "flush", "open", "delete"}, nfail \in 0 .. MaxOps :
          PeriodicRotate(fail, nfail)
    \/ \E ok \in BOOLEAN : PeriodicLog(ok)
    \/ TimerCancel
    \/ PeriodicExit
    \/ Crash

\* the thread pool runs the task whenever it can take a step
SpecTimer ==
    /\ Init
    /\ [][NextTimer]_vars
    /\ WF_vars(\E ok \in BOOLEAN : PeriodicLog(ok))
    /\ WF_vars(PeriodicExit)

\* WalConfig::max_generation_size, in items
max_generation_size == 3

\* the size of a WAL file, one unit per item
size(file) == Len(file.items)

\* the offsets among from + 1 .. to of the current generation whose append found
\* size() >= max_generation_size and spawned a single_checkpoint_task
SpawningOffsets(from, to) == {j \in from + 1 .. to : j >= max_generation_size}

\* what push_raw_item's spawns add to the tasks waiting in the thread pool
Spawn(e, cur, from, to) ==
    [e EXCEPT !.spawned = @ + Cardinality(SpawningOffsets(from, to)),
              !.scheduling = @ \cup {<<cur, j>> : j \in SpawningOffsets(from, to)}]

\* log_write with the size check that follows the append
SizedLogWrite(t, tgt) ==
    /\ phase = "running"
    /\ env.ops < MaxOps
    /\ t \in env.active \cup {env.next_tid}
    /\ LET k == env.nwrites + 1
           log == [transaction_id |-> t, page_address |-> tgt[1], offset |-> tgt[2],
                   from |-> 2 * k - 1, to |-> 2 * k]
           r == push_raw_item(World(files, state), create_write_data(state, log),
                              current_gen_num)
       IN  /\ files' = r.files
           /\ state' = r.state
           /\ env' = Spawn([env EXCEPT !.ops = @ + 1, !.nwrites = k,
                                       !.active = @ \cup {t},
                                       !.next_tid = IF t = @ THEN @ + 1 ELSE @,
                                       !.unflushed = @ \cup {<<t, r.index>>},
                                       !.dirtied = @ \cup {<<tgt[1], r.index>>}],
                           current_gen_num, size(files[current_gen_num]),
                           size(r.files[current_gen_num]))
    /\ out' = Quiet
    /\ UNCHANGED <<others, generations, current_gen_num, phase, checkpoints, threads, locks,
                   periodic>>

\* log_commit with the size check that follows the append
SizedLogCommit(t) ==
    /\ phase = "running"
    /\ env.ops < MaxOps
    /\ t \in env.active
    /\ LET r == push_raw_item(World(files, state),
                              CommitItem(create_transaction_data(state, t)),
                              current_gen_num)
       IN  /\ files' = flush_impl(r.files, generations)
           /\ state' = r.state
           /\ env' = Spawn([env EXCEPT
                              !.ops = @ + 1, !.active = @ \ {t},
                              !.must_redo = @ \cup {u[2] : u \in {v \in env.unflushed :
                                                                    v[1] = t}},
                              !.unflushed = {v \in @ : v[1] # t}],
                           current_gen_num, size(files[current_gen_num]),
                           size(r.files[current_gen_num]))
    /\ out' = Quiet
    /\ UNCHANGED <<others, generations, current_gen_num, phase, checkpoints, threads, locks,
                   periodic>>

\* undo with the size check that follows each compensation Write and the Commit
SizedUndo(t) ==
    /\ phase = "running"
    /\ env.ops < MaxOps
    /\ t \in env.active
    /\ LET fs == flush_impl(files, generations)
           r == undo_all(World(fs, state), <<t>>, generations, current_gen_num)
       IN  /\ files' = r.files
           /\ state' = r.state
           /\ out' = [op |-> "undo", ops |-> r.ops, victims |-> <<t>>,
                      pre_len |-> Len(files[current_gen_num].items)]
           /\ env' = Spawn([env EXCEPT !.ops = @ + 1, !.active = @ \ {t},
                                       !.unflushed = {v \in @ : v[1] # t}],
                           current_gen_num, size(files[current_gen_num]),
                           size(r.files[current_gen_num]))
    /\ UNCHANGED <<others, generations, current_gen_num, phase, checkpoints, threads, locks,
                   periodic>>

\* a spawned single_checkpoint_task runs checkpoint up to the release of the
\* queue's write lock
SizeTaskRotate(fail, nfail) ==
    /\ phase = "running"
    /\ env.spawned > 0
    /\ <<fail, nfail>> \in RotateOutcomes
    /\ LET r == checkpoint_rotate(files, generations, current_gen_num, state, fail, nfail)
       IN  /\ files' = r.files
           /\ generations' = r.generations
           /\ current_gen_num' = r.current_gen_num
           /\ checkpoints' =
                 IF r.ok
                 THEN checkpoints \cup
                        {[gen_num |-> current_gen_num + 1,
                          first_needed |-> first_needed_generation(state)]}
                 ELSE checkpoints
           /\ out' = [op |-> "rotate", ok |-> r.ok,
                      popped |-> Range(generations) \ Range(r.generations),
                      unlinked |-> (DOMAIN files) \ (DOMAIN r.files),
                      first_needed |-> first_needed_generation(state)]
    /\ env' = [env EXCEPT !.spawned = @ - 1]
    /\ UNCHANGED <<others, state, phase, threads, locks, periodic>>

\* one Wal whose checkpoints are those its appends spawn
NextSize ==
    \/ Create
    \/ \E t \in Tids, tgt \in WriteTargets : SizedLogWrite(t, tgt)
    \/ \E t \in Tids : SizedLogCommit(t)
    \/ \E t \in Tids : SizedUndo(t)
    \/ \E fail \in {"none", "flush", "open", "delete"}, nfail \in 0 .. MaxOps :
          SizeTaskRotate(fail, nfail)
    \/ \E task \in checkpoints, ok \in BOOLEAN : CheckpointLog(task, ok)

SpecSize == Init /\ [][NextSize]_vars

\* the same calls, and appends that fail with an I/O error
NextIo ==
    \/ Next
    \/ \E t \in Tids, tgt \in WriteTargets : LogWriteErr(t, tgt)
    \/ \E t \in Tids : LogCommitErr(t)

SpecIo == Init /\ [][NextIo]_vars

\* undo whose append of compensation number k fails with an I/O error
UndoErr(t, k) ==
    /\ phase = "running"
    /\ env.ops < MaxOps
    /\ t \in env.active
    /\ LET fs == flush_impl(files, generations)
           items == compensation_items(World(fs, state), <<t>>, generations)
           r == undo_all_err(World(fs, state), <<t>>, generations, current_gen_num, k)
       IN  /\ k \in DOMAIN items
           /\ files' = r.files
           /\ state' = r.state
           /\ out' = [op |-> "undo", ops |-> r.ops, victims |-> <<t>>,
                      pre_len |-> Len(files[current_gen_num].items),
                      err |-> "File", failed |-> items[k]]
           /\ env' = [env EXCEPT
                        !.ops = @ + 1,
                        !.dirtied = @ \cup
                           {<<r.files[current_gen_num].items[i].page_address,
                              <<current_gen_num, i>>>> :
                              i \in {j \in DOMAIN r.files[current_gen_num].items :
                                        /\ j > Len(files[current_gen_num].items)
                                        /\ r.files[current_gen_num].items[j].kind
                                              = "Write"}}]
    /\ UNCHANGED <<others, periodic, generations, current_gen_num, phase, checkpoints, threads, locks>>

NextUndo ==
    \/ Next
    \/ \E t \in Tids, k \in 1 .. MaxOps : UndoErr(t, k)

SpecUndo == Init /\ [][NextUndo]_vars

\* ------------------------------------------- threads sharing one Wal handle
\* Each step below is what a thread does between two lock operations. A client
\* thread th runs transaction th on page th: a log_write, then log_commit.
InitConc ==
    /\ files = log_checkpoint(open_wal_file(EmptyMap, 0), <<0>>, DefaultState)
    /\ generations = <<0>>
    /\ current_gen_num = 0
    /\ state = DefaultState
    /\ phase = "running"
    /\ checkpoints = {}
    /\ out = Quiet
    /\ env = [ops |-> 0, nwrites |-> 0, next_tid |-> 1, active |-> {},
              unflushed |-> {}, must_redo |-> {}, dirtied |-> {}, tracked |-> FALSE,
              spawned |-> 0, scheduling |-> {}]
    /\ threads = [th \in Clients \cup CheckpointTasks |-> IdleThread]
    /\ locks = FreeLocks
    /\ periodic = NoTask
    /\ mgr = None
    /\ storage = None
    /\ bwal = None

\* log_write up to generations.read(): the entry of a transaction in State is
\* written by that transaction's calls only, so create_write_data reads here
\* what it would read at any earlier point of the call
BeginLogWrite(th) ==
    /\ threads[th].pc = "idle"
    /\ threads[th].op = "none"
    /\ LET log == [transaction_id |-> th, page_address |-> th, offset |-> 0,
                   from |-> 2 * th - 1, to |-> 2 * th]
       IN  threads' = [threads EXCEPT ![th] =
                         [@ EXCEPT !.pc = "push", !.op = "write",
                                   !.item = Some(create_write_data(state, log))]]
    /\ locks' = [locks EXCEPT !.readers = @ \cup {th}]
    /\ UNCHANGED <<others, periodic, files, generations, current_gen_num, state, phase, checkpoints,
                   out, env>>

\* log_commit up to generations.read()
BeginLogCommit(th) ==
    /\ threads[th].pc = "idle"
    /\ threads[th].op = "write"
    /\ threads' = [threads EXCEPT ![th] =
                     [@ EXCEPT !.pc = "push", !.op = "commit",
                               !.item = Some(CommitItem(create_transaction_data(state, th)))]]
    /\ locks' = [locks EXCEPT !.readers = @ \cup {th}]
    /\ UNCHANGED <<others, periodic, files, generations, current_gen_num, state, phase, checkpoints,
                   out, env>>

\* faulty variant of PushRawItemState: the index is taken without the file's
\* Mutex
PushRawItemState_unlocked(th) ==
    /\ threads[th].pc = "push"
    /\ LET index == <<current_gen_num, next_offset(files[current_gen_num])>>
       IN  /\ state' = handle_item(state, index, threads[th].item[1])
           /\ threads' = [threads EXCEPT ![th] =
                            [@ EXCEPT !.pc = "append", !.index = Some(index)]]
    /\ UNCHANGED <<others, periodic, files, generations, current_gen_num, phase, checkpoints, out, env,
                   locks>>

\* push_raw_item: current_generation() locks the file, the index is taken and
\* State handles the item
PushRawItemState(th) ==
    /\ threads[th].pc = "push"
    /\ locks.file = None
    /\ LET index == <<current_gen_num, next_offset(files[current_gen_num])>>
       IN  /\ state' = handle_item(state, index, threads[th].item[1])
           /\ threads' = [threads EXCEPT ![th] =
                            [@ EXCEPT !.pc = "append", !.index = Some(index)]]
    /\ locks' = [locks EXCEPT !.file = Some(th)]
    /\ UNCHANGED <<others, periodic, files, generations, current_gen_num, phase, checkpoints, out, env>>

\* push_raw_item: push_item, and the file's guard is dropped on return; log_write
\* then drops its read guard and returns Ok(index)
PushRawItemFile(th) ==
    /\ threads[th].pc = "append"
    /\ files' = [files EXCEPT ![current_gen_num] = push_item(@, threads[th].item[1])]
    /\ threads' = [threads EXCEPT ![th] =
                     [@ EXCEPT !.pc = IF threads[th].op = "commit" THEN "flush"
                                      ELSE "idle",
                               !.item = None]]
    /\ locks' = [locks EXCEPT !.file = None,
                              !.readers = IF threads[th].op = "commit" THEN @
                                          ELSE @ \ {th}]
    /\ UNCHANGED <<others, periodic, generations, current_gen_num, state, phase, checkpoints, out, env>>

\* log_commit: flush_impl under the read lock taken before the append, then the
\* read guard is dropped and the call returns Ok(index)
FlushCommit(th) ==
    /\ threads[th].pc = "flush"
    /\ locks.file = None
    /\ files' = flush_impl(files, generations)
    /\ threads' = [threads EXCEPT ![th] =
                     [@ EXCEPT !.pc = "idle", !.flushed_gen = Some(current_gen_num)]]
    /\ locks' = [locks EXCEPT !.readers = @ \ {th}]
    /\ UNCHANGED <<others, periodic, generations, current_gen_num, state, phase, checkpoints, out, env>>

\* undo: generations.write() is held from flush_impl to the last Commit of
\* undo_all, so no other thread reads or appends in between
ClientUndo(th) ==
    /\ threads[th].pc = "idle"
    /\ threads[th].op = "write"
    /\ locks.readers = {}
    /\ LET r == undo_all(World(flush_impl(files, generations), state), <<th>>,
                         generations, current_gen_num)
       IN  /\ files' = r.files
           /\ state' = r.state
    /\ threads' = [threads EXCEPT ![th] = [@ EXCEPT !.op = "undo"]]
    /\ UNCHANGED <<others, periodic, generations, current_gen_num, phase, checkpoints, out, env, locks>>

\* checkpoint from generations.write() to mem::drop(gens_mut): the write lock is
\* granted when no thread holds a read lock
TaskRotate(th) ==
    /\ threads[th].pc = "idle"
    /\ locks.readers = {}
    /\ LET r == checkpoint_rotate(files, generations, current_gen_num, state, "none", 0)
       IN  /\ files' = r.files
           /\ generations' = r.generations
           /\ current_gen_num' = r.current_gen_num
    /\ threads' = [threads EXCEPT ![th] = [@ EXCEPT !.pc = "rotated", !.op = "checkpoint"]]
    /\ UNCHANGED <<others, periodic, state, phase, checkpoints, out, env, locks>>

\* log_checkpoint: read lock, file lock and State lock taken and dropped
TaskLogCheckpoint(th) ==
    /\ threads[th].pc = "rotated"
    /\ locks.file = None
    /\ files' = log_checkpoint(files, generations, state)
    /\ threads' = [threads EXCEPT ![th] = [@ EXCEPT !.pc = "done"]]
    /\ UNCHANGED <<others, periodic, generations, current_gen_num, state, phase, checkpoints, out, env,
                   locks>>

NextConc ==
    \/ \E th \in Clients : BeginLogWrite(th)
    \/ \E th \in Clients : BeginLogCommit(th)
    \/ \E th \in Clients : PushRawItemState(th)
    \/ \E th \in Clients : PushRawItemFile(th)
    \/ \E th \in Clients : FlushCommit(th)
    \/ \E th \in Clients : ClientUndo(th)
    \/ \E th \in CheckpointTasks : TaskRotate(th)
    \/ \E th \in CheckpointTasks : TaskLogCheckpoint(th)

SpecConc == InitConc /\ [][NextConc]_vars

\* ------------------------------------------------------ one step per lock
\* SpecLocks runs the same calls as SpecConc with every lock operation a step
\* of its own: the RwLock of the queue (readers, writer), the Mutex of the
\* current generation's file and the Mutex of State. A thread's pc names the
\* lock it is about to take or the I/O it is about to do. env.handled lists
\* what State has been through, in the order of its lock, and env.appended
\* what the files have been through, in the order of the appends.
NoLocks == [readers |-> {}, file |-> None, writer |-> None, state |-> None]
OutsideCall == [pc |-> "idle", op |-> "none", item |-> None, index |-> None,
                acquired |-> 0]

\* the locks log_checkpoint takes, in its order
log_checkpoint_locks_state_first == <<"queue", "state", "file">>
log_checkpoint_locks == <<"queue", "file", "state">>

CanLock(l, lk) ==
    CASE l = "queue" -> lk.writer = None
      [] l = "file" -> lk.file = None
      [] l = "state" -> lk.state = None

Lock(l, th, lk) ==
    CASE l = "queue" -> [lk EXCEPT !.readers = @ \cup {th}]
      [] l = "file" -> [lk EXCEPT !.file = Some(th)]
      [] l = "state" -> [lk EXCEPT !.state = Some(th)]

InitLocks ==
    /\ files = log_checkpoint(open_wal_file(EmptyMap, 0), <<0>>, DefaultState)
    /\ generations = <<0>>
    /\ current_gen_num = 0
    /\ state = DefaultState
    /\ phase = "running"
    /\ checkpoints = {}
    /\ out = Quiet
    /\ env = [ops |-> 0, nwrites |-> 0, next_tid |-> 1, active |-> {},
              unflushed |-> {}, must_redo |-> {}, dirtied |-> {}, tracked |-> FALSE,
              spawned |-> 0, scheduling |-> {}, handled |-> <<>>, appended |-> <<>>]
    /\ threads = [th \in Clients \cup CheckpointTasks |-> OutsideCall]
    /\ locks = NoLocks
    /\ periodic = NoTask
    /\ mgr = None
    /\ storage = None
    /\ bwal = None

\* a thread enters a call: a client its log_write, then log_commit or undo, or
\* recover in place of them; a task of the pool its checkpoint
Call(th, op) ==
    /\ threads[th].pc = "idle"
    /\ env.ops < MaxOps
    /\ env' = [env EXCEPT !.ops = @ + 1]
    /\ \/ th \in Clients /\ threads[th].op = "none" /\ op \in {"write", "recover"}
       \/ th \in Clients /\ threads[th].op = "write" /\ op \in {"commit", "undo"}
       \/ th \in CheckpointTasks /\ threads[th].op = "none" /\ op = "checkpoint"
    /\ threads' = [threads EXCEPT ![th] =
                     [@ EXCEPT !.op = op,
                               !.pc = IF op \in {"write", "commit"} THEN "create"
                                      ELSE "write_lock"]]
    /\ UNCHANGED <<others, periodic, files, generations, current_gen_num, state, phase,
                   checkpoints, out, locks>>

\* create_write_data and create_transaction_data, under the State lock
CreateData(th) ==
    /\ threads[th].pc = "create"
    /\ locks.state = None
    /\ LET log == [transaction_id |-> th, page_address |-> th, offset |-> 0,
                   from |-> 2 * th - 1, to |-> 2 * th]
       IN  threads' = [threads EXCEPT ![th] =
                         [@ EXCEPT !.pc = "read",
                                   !.item = IF threads[th].op = "write"
                                            THEN Some(create_write_data(state, log))
                                            ELSE Some(CommitItem(
                                                   create_transaction_data(state, th)))]]
    /\ UNCHANGED <<others, periodic, files, generations, current_gen_num, state, phase,
                   checkpoints, out, env, locks>>

\* self.generations.read()
LockRead(th) ==
    /\ threads[th].pc = "read"
    /\ CanLock("queue", locks)
    /\ locks' = Lock("queue", th, locks)
    /\ threads' = [threads EXCEPT ![th] = [@ EXCEPT !.pc = "push"]]
    /\ UNCHANGED <<others, periodic, files, generations, current_gen_num, state, phase,
                   checkpoints, out, env>>

\* push_raw_item: current_generation() locks the file and the index is taken
LockFile(th) ==
    /\ threads[th].pc = "push"
    /\ CanLock("file", locks)
    /\ locks' = Lock("file", th, locks)
    /\ threads' = [threads EXCEPT ![th] =
                     [@ EXCEPT !.pc = "handle",
                               !.index = Some(<<current_gen_num,
                                                next_offset(files[current_gen_num])>>)]]
    /\ UNCHANGED <<others, periodic, files, generations, current_gen_num, state, phase,
                   checkpoints, out, env>>

\* push_raw_item: state.lock(), handle_item, mem::drop(state)
HandleItem(th) ==
    /\ threads[th].pc = "handle"
    /\ CanLock("state", locks)
    /\ state' = handle_item(state, threads[th].index[1], threads[th].item[1])
    /\ env' = [env EXCEPT !.handled =
                  Append(@, <<"item", threads[th].index[1], threads[th].item[1]>>)]
    /\ threads' = [threads EXCEPT ![th] = [@ EXCEPT !.pc = "append"]]
    /\ UNCHANGED <<others, periodic, files, generations, current_gen_num, phase,
                   checkpoints, out, locks>>

\* push_raw_item: push_item; the file's guard is dropped on return, and the
\* read guard too when the call is log_write
PushItem(th) ==
    /\ threads[th].pc = "append"
    /\ LET gen_num == threads[th].index[1][1] IN
       /\ files' = [files EXCEPT ![gen_num] = push_item(@, threads[th].item[1])]
       /\ env' = [env EXCEPT !.appended =
                     Append(@, <<"item", <<gen_num, next_offset(files[gen_num])>>,
                                 threads[th].item[1]>>)]
    /\ threads' = [threads EXCEPT ![th] =
                     [@ EXCEPT !.pc = IF threads[th].op = "commit" THEN "flush"
                                      ELSE "idle",
                               !.item = None]]
    /\ locks' = [locks EXCEPT !.file = None,
                              !.readers = IF threads[th].op = "commit" THEN @
                                          ELSE @ \ {th}]
    /\ UNCHANGED <<others, periodic, generations, current_gen_num, state, phase,
                   checkpoints, out>>

\* log_commit: flush_impl locks the file again, flushes, and the guards go
Flush(th) ==
    /\ threads[th].pc = "flush"
    /\ CanLock("file", locks)
    /\ files' = flush_impl(files, generations)
    /\ threads' = [threads EXCEPT ![th] = [@ EXCEPT !.pc = "idle"]]
    /\ locks' = [locks EXCEPT !.readers = @ \ {th}]
    /\ UNCHANGED <<others, periodic, generations, current_gen_num, state, phase,
                   checkpoints, out, env>>

\* generations.write() of undo, recover and checkpoint
LockWrite(th) ==
    /\ threads[th].pc = "write_lock"
    /\ locks.readers = {}
    /\ locks.writer = None
    /\ locks' = [locks EXCEPT !.writer = Some(th)]
    /\ threads' = [threads EXCEPT ![th] = [@ EXCEPT !.pc = "exclusive"]]
    /\ UNCHANGED <<others, periodic, files, generations, current_gen_num, state, phase,
                   checkpoints, out, env>>

\* what undo, recover and checkpoint do under the write lock, up to its drop:
\* their file and State locks are taken and dropped inside, file before
\* State, and no other thread holds a file lock without a read lock
Exclusive(th) ==
    /\ threads[th].pc = "exclusive"
    /\ CanLock("file", locks)
    /\ CanLock("state", locks)
    /\ \/ /\ threads[th].op = "undo"
          /\ LET r == undo_all(World(flush_impl(files, generations), state), <<th>>,
                               generations, current_gen_num)
             IN  /\ files' = r.files
                 /\ state' = r.state
                 /\ env' = [env EXCEPT !.handled = Append(@, <<"set", r.state>>),
                                       !.appended = Append(@, <<"set", r.state>>)]
          /\ UNCHANGED <<generations, current_gen_num>>
       \/ /\ threads[th].op = "recover"
          /\ \E all_tids \in KeyOrders(DOMAIN RecoveredState(files, current_gen_num).transactions) :
               LET r == recover(files, generations, current_gen_num, all_tids)
               IN  /\ files' = r.files
                   /\ state' = r.state
                   /\ env' = [env EXCEPT !.handled = Append(@, <<"set", r.state>>),
                                         !.appended = Append(@, <<"set", r.state>>)]
          /\ UNCHANGED <<generations, current_gen_num>>
       \/ /\ threads[th].op = "checkpoint"
          /\ LET r == checkpoint_rotate(files, generations, current_gen_num, state,
                                        "none", 0)
             IN  /\ files' = r.files
                 /\ generations' = r.generations
                 /\ current_gen_num' = r.current_gen_num
          /\ UNCHANGED <<state, env>>
    /\ locks' = [locks EXCEPT !.writer = None]
    /\ threads' = [threads EXCEPT ![th] =
                     [@ EXCEPT !.pc = IF threads[th].op = "checkpoint"
                                      THEN "log_checkpoint" ELSE "idle"]]
    /\ UNCHANGED <<others, periodic, phase, checkpoints, out>>

\* log_checkpoint: generations.read(), current_generation(), state.lock()
TaskLock(th) ==
    /\ threads[th].pc = "log_checkpoint"
    /\ threads[th].acquired < Len(log_checkpoint_locks)
    /\ LET l == log_checkpoint_locks[threads[th].acquired + 1] IN
       /\ CanLock(l, locks)
       /\ locks' = Lock(l, th, locks)
    /\ threads' = [threads EXCEPT ![th] = [@ EXCEPT !.acquired = @ + 1]]
    /\ UNCHANGED <<others, periodic, files, generations, current_gen_num, state, phase,
                   checkpoints, out, env>>

\* log_checkpoint: push_item of the Checkpoint that borrows State, then the
\* three guards are dropped
TaskPushCheckpoint(th) ==
    /\ threads[th].pc = "log_checkpoint"
    /\ threads[th].acquired = Len(log_checkpoint_locks)
    /\ files' = log_checkpoint(files, generations, state)
    /\ out' = [op |-> "log_checkpoint",
               index |-> <<current_gen_num, next_offset(files[current_gen_num])>>,
               item |-> CheckpointItem(state),
               handled |-> env.handled, appended |-> env.appended]
    /\ locks' = [locks EXCEPT !.readers = @ \ {th}, !.file = None, !.state = None]
    /\ threads' = [threads EXCEPT ![th] = [@ EXCEPT !.pc = "done", !.acquired = 0]]
    /\ UNCHANGED <<others, periodic, generations, current_gen_num, state, phase,
                   checkpoints, env>>

\* cache_did_flush, by the buffer cache's thread, when pages are dirty
LockedCacheDidFlush ==
    /\ CanLock("state", locks)
    /\ state.dirty_pages # EmptyMap
    /\ env.ops < MaxOps
    /\ state' = state_cache_did_flush(state)
    /\ env' = [env EXCEPT !.handled = Append(@, <<"flush">>), !.ops = @ + 1]
    /\ UNCHANGED <<others, periodic, files, generations, current_gen_num, phase,
                   checkpoints, out, threads, locks>>

NextLocks ==
    \/ \E th \in Clients \cup CheckpointTasks,
          op \in {"write", "commit", "undo", "recover", "checkpoint"} : Call(th, op)
    \/ \E th \in Clients : CreateData(th)
    \/ \E th \in Clients : LockRead(th)
    \/ \E th \in Clients : LockFile(th)
    \/ \E th \in Clients : HandleItem(th)
    \/ \E th \in Clients : PushItem(th)
    \/ \E th \in Clients : Flush(th)
    \/ \E th \in Clients \cup CheckpointTasks : LockWrite(th)
    \/ \E th \in Clients \cup CheckpointTasks : Exclusive(th)
    \/ \E th \in CheckpointTasks : TaskLock(th)
    \/ \E th \in CheckpointTasks : TaskPushCheckpoint(th)
    \/ LockedCacheDidFlush

SpecLocks == InitLocks /\ [][NextLocks]_vars

\* push_raw_item: push_item fails after State::handle_item has run; the error
\* leaves through ?, which drops the guards, and log_commit does not flush
PushItemErr(th) ==
    /\ threads[th].pc = "append"
    /\ out' = [op |-> "push_raw_item", index |-> threads[th].index[1],
               item |-> threads[th].item[1], err |-> "File"]
    /\ threads' = [threads EXCEPT ![th] = [@ EXCEPT !.pc = "idle", !.item = None]]
    /\ locks' = [locks EXCEPT !.file = None, !.readers = @ \ {th}]
    /\ UNCHANGED <<others, periodic, files, generations, current_gen_num, state, phase,
                   checkpoints, env>>

NextLocksIo == NextLocks \/ \E th \in Clients : PushItemErr(th)

SpecLocksIo == InitLocks /\ [][NextLocksIo]_vars

\* ------------------------------------------------------------ CacheManager
\* a VecDeque is a sequence whose head is the front
push_front(q, v) == <<v>> \o q
back(q) == q[Len(q)]
without_back(q) == SubSeq(q, 1, Len(q) - 1)
contains(q, v) == \E i \in DOMAIN q : q[i] = v
position(q, v) == SetMin({i \in DOMAIN q : q[i] = v})
remove(q, index) == SubSeq(q, 1, index - 1) \o SubSeq(q, index + 1, Len(q))

CacheManager_new(length) ==
    [slow |-> <<>>, fast_cap |-> length \div 4, fast |-> <<>>,
     graveyard_cap |-> length \div 2, graveyard |-> <<>>]

\* faulty variant of access_slow: the key is pushed to the front and its old
\* place in slow is kept
access_slow_unremoved(m, item) == [m EXCEPT !.slow = push_front(@, item)]

access_slow(m, item) ==
    [m EXCEPT !.slow = push_front(remove(m.slow, position(m.slow, item)), item)]

\* faulty variant of access_graveyard: the key is taken out of the graveyard
access_graveyard_removing(m, item) ==
    [m EXCEPT !.slow = push_front(@, item),
              !.graveyard = remove(@, position(@, item))]

access_graveyard(m, item) == [m EXCEPT !.slow = push_front(@, item)]

\* faulty variant of access: a key found in fast is moved to its front
access_promoting(m, item) ==
    IF contains(m.fast, item)
    THEN [m EXCEPT !.fast = push_front(remove(m.fast, position(m.fast, item)), item)]
    ELSE IF contains(m.slow, item) THEN access_slow(m, item)
    ELSE IF contains(m.graveyard, item) THEN access_graveyard(m, item)
    ELSE [m EXCEPT !.fast = push_front(@, item)]

access(m, item) ==
    IF contains(m.fast, item) THEN m
    ELSE IF contains(m.slow, item) THEN access_slow(m, item)
    ELSE IF contains(m.graveyard, item) THEN access_graveyard(m, item)
    ELSE [m EXCEPT !.fast = push_front(@, item)]

\* faulty variant of reclaim_fast: the graveyard is not trimmed
reclaim_fast_untrimmed(m) ==
    [mgr |-> [m EXCEPT !.fast = without_back(@),
                       !.graveyard = push_front(@, back(m.fast))],
     ret |-> Some(back(m.fast))]

\* reclaim when fast is over its capacity
reclaim_fast(m) ==
    LET reclaimed == back(m.fast)
        pushed == push_front(m.graveyard, reclaimed)
    IN  [mgr |-> [m EXCEPT !.fast = without_back(@),
                           !.graveyard = IF Len(pushed) > m.graveyard_cap
                                         THEN without_back(pushed) ELSE pushed],
         ret |-> Some(reclaimed)]

\* faulty variant of reclaim_slow: the tail of slow is returned and left in slow
reclaim_slow_peek(m) ==
    IF m.slow = <<>> THEN [mgr |-> m, ret |-> None]
    ELSE [mgr |-> m, ret |-> Some(back(m.slow))]

\* self.slow.pop_back()
reclaim_slow(m) ==
    IF m.slow = <<>> THEN [mgr |-> m, ret |-> None]
    ELSE [mgr |-> [m EXCEPT !.slow = without_back(@)], ret |-> Some(back(m.slow))]

reclaim(m) ==
    IF Len(m.fast) > m.fast_cap THEN reclaim_fast(m) ELSE reclaim_slow(m)

\* a replacer of any capacity up to MaxLength, just constructed
InitMgr ==
    /\ WalClosed
    /\ \E length \in 0 .. MaxLength : mgr = CacheManager_new(length)
    /\ storage = None
    /\ bwal = None

Access(item) ==
    /\ mgr' = access(mgr, item)
    /\ out' = [op |-> "access", item |-> item, before |-> mgr]
    /\ UNCHANGED <<walState, storage, bwal>>

Reclaim ==
    /\ mgr' = reclaim(mgr).mgr
    /\ out' = [op |-> "reclaim", ret |-> reclaim(mgr).ret, before |-> mgr]
    /\ UNCHANGED <<walState, storage, bwal>>

NextMgr ==
    \/ \E item \in Keys : Access(item)
    \/ Reclaim

SpecMgr == InitMgr /\ [][NextMgr]_vars

\* --------------------------------------------------------- PhysicalStorage
\* A segment file is a function from page numbers to None (never written) or
\* the body last written with its WalIndex; the folder holds one per segment.
\* A caller writes body b with WalIndex <<1, b>>.

\* CacheReplacer<u32> of utils::cache: the tri-queue above under its length.
CacheReplacer_new(length) == CacheManager_new(length)

\* evict_replace admits the new key and hands back what reclaim gives up.
\* The two rules of the replacer are all that is known of it, so both orders
\* of applying them are outcomes: [mgr, ret].
evict_replace(replacer, item) ==
    {reclaim(access(replacer, item)),
     [mgr |-> access(reclaim(replacer).mgr, item), ret |-> reclaim(replacer).ret]}

DescriptorCache_new(max) ==
    [descriptors |-> {}, replacer |-> CacheReplacer_new(max),
     max_num_open_segments |-> max]

\* Some(descriptor) touches the replacer; the cache is behind a read lock and
\* the touch goes through the replacer's own lock.
get_descriptor(cache, segment_num) ==
    IF segment_num \in cache.descriptors
    THEN [cache EXCEPT !.replacer = access(@, segment_num)]
    ELSE cache

\* e is the outcome of replacer.evict_replace(segment_num)
store_descriptor(cache, segment_num, e) ==
    [cache EXCEPT !.replacer = e.mgr,
                  !.descriptors = IF e.ret /= None
                                  THEN (@ \ {e.ret[1]}) \cup {segment_num}
                                  ELSE @ \cup {segment_num}]

\* the handler of read and of write on the segment file, with what it returns
segment_call(segment, c) ==
    IF c.op = "read"
    THEN [segment |-> segment,
          ret |-> IF segment[c.page_num] = None THEN None
                  ELSE segment[c.page_num]]
    ELSE [segment |-> [segment EXCEPT ![c.page_num] =
                          [buf |-> c.buf, wal_index |-> c.wal_index]],
          ret |-> "ok"]

\* the closure read and write hand to use_segment, run on the descriptor of
\* c.segment_num; calls holds the calls the segment files received from the
\* last read or write that got to its handler, and opened what the folder
\* was asked to open and whether the cache held that segment then
handler(st, c) ==
    LET r == segment_call(st.segments[c.segment_num], c) IN
    [st EXCEPT !.segments[c.segment_num] = r.segment,
               !.calls = Append(@, [op |-> c.op, segment_num |-> c.segment_num,
                                    page_num |-> c.page_num, buf |-> c.buf,
                                    wal_index |-> c.wal_index, ret |-> r.ret])]

PhysicalStorage_new(max) ==
    [cache |-> DescriptorCache_new(max),
     segments |-> [s \in SegmentNums |-> [p \in PageNums |-> None]],
     calls |-> <<>>,
     opened |-> {},
     ncalls |-> 0,
     pc |-> [th \in StorageThreads |-> None]]

InitStorage ==
    /\ WalClosed
    /\ mgr = None
    /\ \E max \in 0 .. MaxOpenSegments : storage = PhysicalStorage_new(max)
    /\ bwal = None

\* read(ReadOp) and write(WriteOp) up to the look under the read lock: a hit
\* runs the handler under that lock and returns, a miss drops the lock.
UseSegment(th, c) ==
    /\ storage /= None
    /\ storage.pc[th] = None
    /\ storage.ncalls < MaxStorageCalls
    /\ LET n == storage.ncalls + 1
           call == c
           st == [storage EXCEPT !.ncalls = n] IN
       IF call.segment_num \in storage.cache.descriptors
       THEN LET hit == handler([st EXCEPT !.cache = get_descriptor(@, call.segment_num),
                                           !.calls = <<>>],
                               call) IN
            /\ storage' = hit
            /\ out' = [op |-> call.op, call |-> call, thread |-> th, ok |-> TRUE,
                       ret |-> hit.calls[Len(hit.calls)].ret,
                       calls |-> hit.calls,
                       opened |-> <<>>]
       ELSE /\ storage' = [st EXCEPT !.pc[th] = [at |-> "open", call |-> call]]
            /\ out' = [op |-> "miss", call |-> call, thread |-> th]
    /\ UNCHANGED <<walState, mgr, bwal>>

\* folder.open_segment_file(segment_num)?, with no lock held
OpenSegmentFile(th, ok) ==
    /\ storage /= None
    /\ storage.pc[th] /= None
    /\ storage.pc[th].at = "open"
    /\ LET call == storage.pc[th].call
           cached == call.segment_num \in storage.cache.descriptors IN
       IF ok
       THEN /\ storage' = [storage EXCEPT
                   !.opened = @ \cup {[segment_num |-> call.segment_num,
                                        cached |-> cached]},
                   !.pc[th] = [at |-> "store", call |-> call]]
            /\ out' = [op |-> "open", call |-> call, thread |-> th, cached |-> cached]
       ELSE /\ storage' = [storage EXCEPT !.pc[th] = None]
            /\ out' = [op |-> call.op, call |-> call, thread |-> th, ok |-> FALSE,
                       ret |-> "StorageError::File", calls |-> <<>>, opened |-> <<>>]
    /\ UNCHANGED <<walState, mgr, bwal>>

\* the write lock, store_descriptor and the handler
StoreDescriptor(th) ==
    /\ storage /= None
    /\ storage.pc[th] /= None
    /\ storage.pc[th].at = "store"
    /\ LET call == storage.pc[th].call IN
       \E e \in evict_replace(storage.cache.replacer, call.segment_num) :
           LET done == handler([storage EXCEPT
                                   !.cache = store_descriptor(@, call.segment_num, e),
                                   !.pc[th] = None, !.calls = <<>>], call) IN
           /\ storage' = done
           /\ out' = [op |-> call.op, call |-> call, thread |-> th, ok |-> TRUE,
                      ret |-> done.calls[Len(done.calls)].ret,
                      calls |-> done.calls,
                      opened |-> <<call.segment_num>>,
                      present |-> call.segment_num \in storage.cache.descriptors]
    /\ UNCHANGED <<walState, mgr, bwal>>

StorageCalls ==
    [op : {"read"}, segment_num : SegmentNums, page_num : PageNums,
     buf : {None}, wal_index : {None}]
    \cup {[op |-> "write", segment_num |-> s, page_num |-> p, buf |-> b,
            wal_index |-> <<1, b>>] : s \in SegmentNums, p \in PageNums, b \in Bufs}

NextStorage ==
    \/ \E th \in StorageThreads, c \in StorageCalls : UseSegment(th, c)
    \/ \E th \in StorageThreads, ok \in BOOLEAN : OpenSegmentFile(th, ok)
    \/ \E th \in StorageThreads : StoreDescriptor(th)

SpecStorage == InitStorage /\ [][NextStorage]_vars

\* ------------------------------------------------- buffered Wal (acorn/wal.rs)
\* The file is a sequence of bytes with a position, as Seek + Read + Write
\* give it; append says whether its writes go to the end whatever the
\* position (load_file opens with append(true), a Cursor does not). native is
\* the byte order of the build: 0 little endian, 1 big endian.

WAL_MAGIC == <<65, 67, 78, 76>>
HEADER_SIZE == 10
PAGE_ID_SIZE == 8
BUF_READER_CAPACITY == 8192

u16_bytes(n, order) ==
    IF order = 0 THEN <<n % 256, n \div 256>> ELSE <<n \div 256, n % 256>>
u16_from_bytes(b, order) ==
    IF order = 0 THEN b[1] + 256 * b[2] ELSE 256 * b[1] + b[2]

\* header.as_bytes() of WalHeader {magic, log_start, page_size, byte_order}
WalHeader_as_bytes(header, order) ==
    header.magic \o u16_bytes(header.log_start, order)
        \o u16_bytes(header.page_size, order) \o <<header.byte_order, 0>>
WalHeader_from_bytes(b, order) ==
    [magic |-> SubSeq(b, 1, 4),
     log_start |-> u16_from_bytes(SubSeq(b, 5, 6), order),
     page_size |-> u16_from_bytes(SubSeq(b, 7, 8), order),
     byte_order |-> b[9]]

\* ViewBuf::from(page_id).as_bytes(): u32, u16 and two bytes of padding
PageId_as_bytes(page_id, order) ==
    (IF order = 0 THEN <<page_id[1] % 256, page_id[1] \div 256, 0, 0>>
                  ELSE <<0, 0, page_id[1] \div 256, page_id[1] % 256>>)
        \o u16_bytes(page_id[2], order) \o <<0, 0>>
PageId_from_bytes(b, order) ==
    <<IF order = 0 THEN b[1] + 256 * b[2] ELSE 256 * b[3] + b[4],
      u16_from_bytes(SubSeq(b, 5, 6), order)>>

\* ByteOrder::from_byte
ByteOrder_from_byte(byte) == IF byte \in {0, 1} THEN <<byte>> ELSE None

\* write_all(bytes) on a file at its position, or at its end when appending
write_all(f, bytes) ==
    LET at == IF f.append THEN Len(f.data) ELSE f.pos IN
    [f EXCEPT !.data = SubSeq(@, 1, at) \o bytes
                           \o SubSeq(@, at + Len(bytes) + 1, Len(@)),
              !.pos = at + Len(bytes)]
seek(f, to) == [f EXCEPT !.pos = to]

\* Wal::init: the header at the start of the file
Wal_init(f, page_size, native) ==
    write_all(seek(f, 0),
              WalHeader_as_bytes([magic |-> WAL_MAGIC, log_start |-> HEADER_SIZE,
                                  page_size |-> page_size, byte_order |-> native],
                                 native))

load_page_size_first(f, page_size, native) ==
    IF Len(f.data) < HEADER_SIZE THEN [err |-> "Io", wal |-> None, file |-> f]
    ELSE LET header == WalHeader_from_bytes(f.data, native)
             byte_order == ByteOrder_from_byte(header.byte_order) IN
         IF header.magic # WAL_MAGIC
         THEN [err |-> "NotAWalFile", wal |-> None, file |-> f]
         ELSE IF header.page_size # page_size
         THEN [err |-> "PageSizeMismatch", wal |-> None, file |-> f]
         ELSE IF byte_order = None
         THEN [err |-> "Corrupted", wal |-> None, file |-> f]
         ELSE IF byte_order[1] # native
         THEN [err |-> "ByteOrderMismatch", wal |-> None, file |-> f]
         ELSE [err |-> "Ok",
               wal |-> [log_start |-> header.log_start, page_size |-> header.page_size,
                        buf |-> <<>>],
               file |-> seek(f, header.log_start)]

\* Wal::load: [err, wal, file], err "Ok" with the Wal
load(f, page_size, native) ==
    IF Len(f.data) < HEADER_SIZE THEN [err |-> "Io", wal |-> None, file |-> f]
    ELSE LET header == WalHeader_from_bytes(f.data, native)
             byte_order == ByteOrder_from_byte(header.byte_order) IN
         IF header.magic # WAL_MAGIC
         THEN [err |-> "NotAWalFile", wal |-> None, file |-> f]
         ELSE IF byte_order = None
         THEN [err |-> "Corrupted", wal |-> None, file |-> f]
         ELSE IF byte_order[1] # native
         THEN [err |-> "ByteOrderMismatch", wal |-> None, file |-> f]
         ELSE IF header.page_size # page_size
         THEN [err |-> "PageSizeMismatch", wal |-> None, file |-> f]
         ELSE [err |-> "Ok",
               wal |-> [log_start |-> header.log_start, page_size |-> header.page_size,
                        buf |-> <<>>],
               file |-> seek(f, header.log_start)]

log_write(wal, page_id, data, native) ==
    [wal EXCEPT !.buf = @ \o PageId_as_bytes(page_id, native) \o data]

\* BufReader::fill_buf: up to its capacity from the file's position
fill_buf(b) ==
    LET n == SetMin({BUF_READER_CAPACITY, Len(b.file.data) - b.file.pos}) IN
    IF Len(b.buffer) > 0 \/ n <= 0 THEN b
    ELSE [b EXCEPT !.buffer = SubSeq(b.file.data, b.file.pos + 1, b.file.pos + n),
                   !.file.pos = @ + n]

\* BufReader::read(buf of n bytes): one fill, then what the buffer holds
read(b, n) ==
    LET f == fill_buf(b)
        k == SetMin({n, Len(f.buffer)}) IN
    [bytes |-> SubSeq(f.buffer, 1, k),
     reader |-> [f EXCEPT !.buffer = SubSeq(@, k + 1, Len(@))]]

\* read_exact: reads until n bytes are there or the file ends
RECURSIVE read_exact(_, _)
read_exact(b, n) ==
    LET r == read(b, n) IN
    IF Len(r.bytes) = n \/ Len(r.bytes) = 0 THEN r
    ELSE LET rest == read_exact(r.reader, n - Len(r.bytes)) IN
         [bytes |-> r.bytes \o rest.bytes, reader |-> rest.reader]

\* Iter::next: [item, reader] with item None, <<"Err">> or <<"Ok", page_id, data>>
next(b, page_size, native) ==
    LET id == read(b, PAGE_ID_SIZE) IN
    IF Len(id.bytes) # PAGE_ID_SIZE THEN [item |-> None, reader |-> id.reader]
    ELSE LET page == read_exact(id.reader, page_size) IN
         IF Len(page.bytes) # page_size
         THEN [item |-> <<"Err">>, reader |-> page.reader]
         ELSE [item |-> <<"Ok", PageId_from_bytes(id.bytes, native), page.bytes>>,
               reader |-> page.reader]

\* a file nobody has written yet, and the headers some other program or
\* machine may have left in one: a wrong magic, any byte_order byte, either
\* page size, written in the byte order the byte names when it names one
EmptyFile == [data |-> <<>>, pos |-> 0, append |-> FALSE]
ForeignHeaders ==
    [magic : {WAL_MAGIC, <<65, 67, 78, 68>>}, log_start : {HEADER_SIZE},
     page_size : PageSizes, byte_order : 0 .. 2]

\* committed and pending are the <<page_id, data>> pairs of the batches
\* committed to the file and of the batch being buffered; header is what the
\* file's header was written from
InitWal ==
    /\ WalClosed
    /\ mgr = None
    /\ storage = None
    /\ \E native \in {0, 1} :
           bwal = [file |-> EmptyFile, native |-> native, wal |-> None, it |-> None,
                   header |-> None, committed |-> <<>>, pending |-> <<>>, ncalls |-> 0,
                   torn |-> FALSE]

\* Wal::init on a new file (init_file truncates the one it opens)
WalInit(page_size) ==
    /\ bwal # None
    /\ bwal.wal = None
    /\ bwal.file.data = <<>>
    /\ bwal' = [bwal EXCEPT
           !.file = Wal_init(EmptyFile, page_size, bwal.native),
           !.header = [magic |-> WAL_MAGIC, log_start |-> HEADER_SIZE,
                       page_size |-> page_size, byte_order |-> bwal.native]]
    /\ out' = [op |-> "init", page_size |-> page_size]
    /\ UNCHANGED <<walState, mgr, storage>>

\* a file that Wal::init of this build did not write, whole or cut short
ForeignFile(header, order, length) ==
    /\ bwal # None
    /\ bwal.wal = None
    /\ bwal.file.data = <<>>
    /\ header.byte_order \in {0, 1} => order = header.byte_order
    /\ bwal' = [bwal EXCEPT
           !.file.data = SubSeq(WalHeader_as_bytes(header, order), 1, length),
           !.header = header]
    /\ out' = [op |-> "foreign"]
    /\ UNCHANGED <<walState, mgr, storage>>

\* Wal::load on a handle to the file: load_file's appends, a Cursor does not
WalLoad(page_size, append) ==
    /\ bwal # None
    /\ bwal.wal = None
    /\ bwal.file.data # <<>>
    /\ bwal.ncalls < MaxWalCalls
    /\ LET r == load([bwal.file EXCEPT !.pos = 0, !.append = append], page_size,
                     bwal.native) IN
       /\ bwal' = [bwal EXCEPT !.file = r.file, !.wal = r.wal, !.pending = <<>>,
                               !.ncalls = @ + 1]
       /\ out' = [op |-> "load", err |-> r.err, page_size |-> page_size]
    /\ UNCHANGED <<walState, mgr, storage>>

\* callers log whole pages: data is page_size bytes
WalLogWrite(page_id, data) ==
    /\ bwal # None
    /\ bwal.wal # None
    /\ bwal.it = None
    /\ bwal.ncalls < MaxWalCalls
    /\ Len(data) = bwal.wal.page_size
    /\ bwal' = [bwal EXCEPT !.wal = log_write(@, page_id, data, bwal.native),
                            !.pending = Append(@, <<page_id, data>>),
                            !.ncalls = @ + 1]
    /\ out' = [op |-> "log_write"]
    /\ UNCHANGED <<walState, mgr, storage>>

WalCommit ==
    /\ bwal # None
    /\ bwal.wal # None
    /\ bwal.it = None
    /\ bwal.ncalls < MaxWalCalls
    /\ bwal' = [bwal EXCEPT !.file = write_all(@, bwal.wal.buf),
                            !.wal.buf = <<>>,
                            !.committed = @ \o bwal.pending,
                            !.pending = <<>>,
                            !.ncalls = @ + 1]
    /\ out' = [op |-> "commit"]
    /\ UNCHANGED <<walState, mgr, storage>>

WalCancel ==
    /\ bwal # None
    /\ bwal.wal # None
    /\ bwal.it = None
    /\ bwal.ncalls < MaxWalCalls
    /\ bwal' = [bwal EXCEPT !.wal.buf = <<>>, !.pending = <<>>, !.ncalls = @ + 1]
    /\ out' = [op |-> "cancel"]
    /\ UNCHANGED <<walState, mgr, storage>>

\* Wal::iter: the Iter borrows the Wal until it is dropped
WalIter ==
    /\ bwal # None
    /\ bwal.wal # None
    /\ bwal.it = None
    /\ bwal.ncalls < MaxWalCalls
    /\ bwal' = [bwal EXCEPT !.file = seek(@, bwal.wal.log_start),
                            !.it = [buffer |-> <<>>, items |-> <<>>, ended |-> FALSE],
                            !.ncalls = @ + 1]
    /\ out' = [op |-> "iter"]
    /\ UNCHANGED <<walState, mgr, storage>>

IterNext ==
    /\ bwal # None
    /\ bwal.it # None
    /\ ~bwal.it.ended
    /\ bwal.ncalls < MaxWalCalls
    /\ LET r == next([file |-> bwal.file, buffer |-> bwal.it.buffer],
                     bwal.wal.page_size, bwal.native) IN
       /\ bwal' = [bwal EXCEPT
              !.file = r.reader.file,
              !.it = [buffer |-> r.reader.buffer,
                      items |-> IF r.item = None THEN @.items ELSE Append(@.items, r.item),
                      ended |-> r.item = None],
              !.ncalls = @ + 1]
       /\ out' = [op |-> "next", item |-> r.item]
    /\ UNCHANGED <<walState, mgr, storage>>

IterDrop ==
    /\ bwal # None
    /\ bwal.it # None
    /\ bwal' = [bwal EXCEPT !.it = None]
    /\ out' = [op |-> "drop"]
    /\ UNCHANGED <<walState, mgr, storage>>

\* a crash while the last item was being written: the closed file loses
\* its last bytes, fewer than one item, and torn says so
TornTail(cut) ==
    /\ bwal # None
    /\ bwal.wal = None
    /\ ~bwal.torn
    /\ Len(bwal.file.data) > HEADER_SIZE
    /\ cut < PAGE_ID_SIZE + bwal.header.page_size
    /\ bwal' = [bwal EXCEPT
           !.file.data = SubSeq(@, 1, Len(@) - cut),
           !.torn = TRUE]
    /\ out' = [op |-> "torn", cut |-> cut]
    /\ UNCHANGED <<walState, mgr, storage>>

\* the Wal is dropped; its file stays
WalDrop ==
    /\ bwal # None
    /\ bwal.wal # None
    /\ bwal.it = None
    /\ bwal' = [bwal EXCEPT !.wal = None, !.pending = <<>>]
    /\ out' = [op |-> "close"]
    /\ UNCHANGED <<walState, mgr, storage>>

NextWal ==
    \/ \E page_size \in PageSizes : WalInit(page_size)
    \/ \E header \in ForeignHeaders, order \in {0, 1}, length \in {4, HEADER_SIZE} :
           ForeignFile(header, order, length)
    \/ \E page_size \in PageSizes, append \in BOOLEAN : WalLoad(page_size, append)
    \/ \E page_id \in PageIds, data \in {<<10>>, <<15, 25>>} : WalLogWrite(page_id, data)
    \/ WalCommit
    \/ WalCancel
    \/ WalIter
    \/ IterNext
    \/ IterDrop
    \/ \E cut \in 1 .. PAGE_ID_SIZE + 1 : TornTail(cut)
    \/ WalDrop

SpecWal == InitWal /\ [][NextWal]_vars

\* ------------------------------------------------- reading a run's results
ZeroPages == [tgt \in WriteTargets |-> 0]

ApplyOp(pages, op) == [pages EXCEPT ![<<op.page_address, op.offset>>] = op.buf]

RECURSIVE ApplyOps(_, _)
ApplyOps(pages, ops) ==
    IF ops = <<>> THEN pages ELSE ApplyOps(ApplyOp(pages, Head(ops)), Tail(ops))

AllIndices(fs) == UNION {{<<g, i>> : i \in 1 .. Len(fs[g].items)} : g \in DOMAIN fs}
ItemAt(fs, index) == fs[index[1]].items[index[2]]
IndexMax(S) == CHOOSE a \in S : \A b \in S : a = b \/ IndexLT(b, a)

IsWrite(item) == item.kind = "Write"
IsCommit(item) == item.kind = "Commit"
IsCheckpoint(item) == item.kind = "Checkpoint"

\* the transactions with a Commit item in the log
CommittedIn(fs) ==
    {ItemAt(fs, i).transaction_id : i \in {j \in AllIndices(fs) : IsCommit(ItemAt(fs, j))}}

\* forward replay of the writes of committed transactions
RECURSIVE ReplayCommitted(_, _, _)
ReplayCommitted(pages, fs, S) ==
    IF S = {} THEN pages
    ELSE LET i == IndexMin(S)
             item == ItemAt(fs, i)
         IN  ReplayCommitted(
                IF IsWrite(item) /\ item.transaction_id \in CommittedIn(fs)
                THEN [pages EXCEPT ![<<item.page_address, item.offset>>] = item.to]
                ELSE pages, fs, S \ {i})

\* the writes of uncommitted transactions reverted, newest first
RECURSIVE CompensateUncommitted(_, _, _)
CompensateUncommitted(pages, fs, S) ==
    IF S = {} THEN pages
    ELSE LET i == IndexMax(S)
             item == ItemAt(fs, i)
         IN  CompensateUncommitted(
                IF IsWrite(item) /\ item.transaction_id \notin CommittedIn(fs)
                   /\ item.from # None
                THEN [pages EXCEPT ![<<item.page_address, item.offset>>] = item.from[1]]
                ELSE pages, fs, S \ {i})

ReferencePages(fs) ==
    CompensateUncommitted(ReplayCommitted(ZeroPages, fs, AllIndices(fs)),
                          fs, AllIndices(fs))

\* the log as recover or undo found it: without the items the call appended
WalBefore ==
    [files EXCEPT ![current_gen_num].items = SubSeq(@, 1, out.pre_len)]

Emitted == {out.ops[k] : k \in DOMAIN out.ops}
\* an op handed to handle carries the index of an item: redo an item the call
\* found, undo the compensation item the call appended
RedoOpPositions == {k \in DOMAIN out.ops : out.ops[k].index[2] <= out.pre_len}
UndoOpPositions == {k \in DOMAIN out.ops : out.ops[k].index[2] > out.pre_len}

Recovered == out.op = "recover"
RecoveredAfterOpen == out.op = "recover" /\ out.after = "open"
Undone == out.op \in {"undo", "recover"}

VictimWrites ==
    {i \in AllIndices(WalBefore) :
        /\ IsWrite(ItemAt(WalBefore, i))
        /\ SeqContains(out.victims, ItemAt(WalBefore, i).transaction_id)
        /\ ItemAt(WalBefore, i).from # None}

Compensates(op, item) ==
    /\ op.page_address = item.page_address
    /\ op.offset = item.offset
    /\ item.from = Some(op.buf)

\* ------------------------------------------------------------------ claims

\* C1: after open and recover, the ops handed to handle, applied in order to a
\* zeroed page table, give the pages that replaying the committed writes of the
\* log and then reverting the writes of the uncommitted transactions gives.
C1_RecoverMatchesReplay ==
    RecoveredAfterOpen => ApplyOps(ZeroPages, out.ops) = ReferencePages(WalBefore)

\* C2: the writes of a transaction whose log_commit returned, made since the
\* last cache_did_flush, are all handed to handle again by the recover that
\* follows a crash and reopen.
C2_CommittedWritesReemitted ==
    RecoveredAfterOpen => env.must_redo \subseteq {op.index : op \in Emitted}

\* the threads whose log_commit has returned Ok(index)
CommitReturned == {th \in Clients : threads[th].pc = "idle" /\ threads[th].op = "commit"}

\* thread th takes a step of a log_write call
LogWriteStep(th) == threads'[th] # threads[th] /\ threads'[th].op = "write"

FlushedLengths(fs) == [g \in DOMAIN fs |-> fs[g].flushed]

CommitIsFlushed ==
    \A th \in CommitReturned :
        LET index == threads[th].index[1]
        IN  /\ threads[th].flushed_gen = Some(index[1])
            /\ index[1] \in DOMAIN files =>
                   /\ index[2] <= Len(files[index[1]].items)
                   /\ ItemAt(files, index).kind = "Commit"
                   /\ ItemAt(files, index).transaction_id = th
            /\ \A i \in AllIndices(files) :
                   ~IndexLT(index, i) => i[2] <= files[i[1]].flushed

\* C3: when log_commit returns Ok, the Commit item and every item appended to
\* the log before it, in its generation and in the earlier ones, has been
\* flushed; the flush was applied to the generation that received the Commit (no
\* rotation came between the append and the flush); no step of log_write
\* changes what is flushed.
C3_CommitFlushesLog ==
    /\ []CommitIsFlushed
    /\ [][\A th \in Clients :
             LogWriteStep(th) => FlushedLengths(files') = FlushedLengths(files)]_vars

\* a log_commit has returned whose transaction wrote in an earlier generation
\* than the one that took its Commit, and that generation is still on disk
C3_Witness ==
    \E th \in CommitReturned :
        \E i \in AllIndices(files) :
            /\ ItemAt(files, i).kind = "Write"
            /\ ItemAt(files, i).transaction_id = th
            /\ i[1] < threads[th].index[1][1]


\* C4: undo and recover hand to handle exactly one compensation for every Write
\* item of a victim that has from present, with its page address, offset and
\* from bytes, and no other compensation.
C4_EveryVictimWriteCompensated ==
    Undone =>
        /\ \A i \in VictimWrites :
              Cardinality({k \in UndoOpPositions :
                              Compensates(out.ops[k], ItemAt(WalBefore, i))}) = 1
        /\ \A k \in UndoOpPositions :
              \E i \in VictimWrites : Compensates(out.ops[k], ItemAt(WalBefore, i))

\* the items recover or undo appended to the current generation
AppendedOffsets == (out.pre_len + 1) .. Len(files[current_gen_num].items)
CurrentItem(off) == files[current_gen_num].items[off]

\* C5: after recover every transaction it found open has a Commit item after
\* its last compensation item and State holds no transaction; a recover that
\* follows a recover appends nothing and hands no compensation to handle.
C5_RecoverClosesTransactions ==
    Recovered =>
        /\ DOMAIN state.transactions = {}
        /\ \A v \in DOMAIN out.victims :
              \E c \in AppendedOffsets :
                 /\ IsCommit(CurrentItem(c))
                 /\ CurrentItem(c).transaction_id = out.victims[v]
                 /\ \A w \in AppendedOffsets :
                       (IsWrite(CurrentItem(w))
                          /\ CurrentItem(w).transaction_id = out.victims[v]) => w < c
        /\ out.after = "recover" => (AppendedOffsets = {} /\ UndoOpPositions = {})

C5_Witness ==
    /\ Recovered /\ out.after = "recover" /\ out.prev_victims # <<>>
    /\ \E off \in DOMAIN files[current_gen_num].items :
          IsWrite(CurrentItem(off)) /\ CurrentItem(off).from = None

\* C6: the redo scan of recover hands a Write item at index i on page p to
\* handle exactly when dirty_pages holds p with a first-dirty index f <= i, as
\* one op with index i and the write's page address, offset and to bytes; for
\* no other item of the generation is an op handed over.
C6_RedoEmitsDirtyWrites ==
    Recovered =>
        /\ \A k \in DOMAIN out.ops : out.ops[k].index[1] = current_gen_num
        /\ \A i \in 1 .. out.pre_len :
              LET item == CurrentItem(i)
                  index == <<current_gen_num, i>>
                  hits == {k \in DOMAIN out.ops : out.ops[k].index = index}
              IN  IF /\ IsWrite(item)
                     /\ item.page_address \in DOMAIN out.redo_dirty
                     /\ ~IndexLT(index, out.redo_dirty[item.page_address])
                  THEN /\ Cardinality(hits) = 1
                       /\ \A k \in hits :
                             out.ops[k] = [index |-> index,
                                           page_address |-> item.page_address,
                                           offset |-> item.offset, buf |-> item.to]
                  ELSE hits = {}

\* a recover whose redo scan emitted one Write item, passed over another that
\* lies before its page's first-dirty index, and met an item that is no Write
C6_Witness ==
    /\ Recovered
    /\ RedoOpPositions # {}
    /\ \E i \in 1 .. out.pre_len : ~IsWrite(CurrentItem(i))
    /\ \E i \in 1 .. out.pre_len :
          /\ IsWrite(CurrentItem(i))
          /\ CurrentItem(i).page_address \in DOMAIN out.redo_dirty
          /\ IndexLT(<<current_gen_num, i>>, out.redo_dirty[CurrentItem(i).page_address])
          /\ \A k \in DOMAIN out.ops : out.ops[k].index # <<current_gen_num, i>>

\* C7: recover hands the redo ops to handle in strictly ascending WalIndex, and
\* all of them before the first compensation.
C7_RedoAscendingBeforeUndo ==
    Recovered =>
        \A j, k \in DOMAIN out.ops :
            (j < k /\ k \in RedoOpPositions) =>
                j \in RedoOpPositions /\ IndexLT(out.ops[j].index, out.ops[k].index)

C7_Witness ==
    Recovered /\ Cardinality(RedoOpPositions) >= 2 /\ UndoOpPositions # {}

\* the Write item a compensation reverts: the one whose from bytes it carries
OriginalOf(op) ==
    CHOOSE i \in AllIndices(WalBefore) :
        IsWrite(ItemAt(WalBefore, i)) /\ ItemAt(WalBefore, i).from = Some(op.buf)

\* C8: undo and recover hand the compensations to handle, and append the
\* compensation items, in descending WalIndex of the writes they revert.
C8_CompensationsDescending ==
    Undone =>
        /\ \A j, k \in UndoOpPositions :
              j < k => /\ IndexLT(OriginalOf(out.ops[k]), OriginalOf(out.ops[j]))
                       /\ IndexLT(out.ops[j].index, out.ops[k].index)
        /\ \A k \in UndoOpPositions :
              LET item == ItemAt(files, out.ops[k].index)
              IN  /\ IsWrite(item) /\ item.from = None /\ item.to = out.ops[k].buf
                  /\ item.page_address = out.ops[k].page_address
                  /\ item.offset = out.ops[k].offset

\* compensations for writes of two generations
C8_Witness ==
    /\ Undone
    /\ \E j, k \in UndoOpPositions :
          OriginalOf(out.ops[j])[1] > OriginalOf(out.ops[k])[1]

\* C9: the cleanup of a checkpoint removes from the queue and from the folder
\* only generations below first_needed_generation, and never the current one.
C9_CleanupKeepsNeeded ==
    out.op = "rotate" =>
        \A g \in out.popped \cup out.unlinked :
            g < out.first_needed /\ g # current_gen_num

\* a rotation under an open transaction, which leaves its generation in place
C9_Witness ==
    /\ out.op = "rotate" /\ out.ok
    /\ out.first_needed < U64_MAX
    /\ \E g \in Range(generations) : g # current_gen_num /\ g >= out.first_needed

\* C10: when a checkpoint has succeeded, the generation it created, the one
\* after the generation that was current, is the current one and holds exactly
\* one Checkpoint item, with State's dirty_pages and transactions, and no other
\* generation below first_needed_generation is in the queue or in the folder.
C10_CheckpointRotatesAndCleans ==
    (out.op = "checkpoint" /\ out.ok) =>
        /\ current_gen_num = out.task.gen_num
        /\ {i \in DOMAIN files[out.task.gen_num].items :
               IsCheckpoint(files[out.task.gen_num].items[i])}
             = {Len(files[out.task.gen_num].items)}
        /\ files[out.task.gen_num].items[Len(files[out.task.gen_num].items)]
             = CheckpointItem(state)
        /\ \A g \in Range(generations) \cup DOMAIN files :
              g < out.task.first_needed => g = current_gen_num

\* the last item of the current generation
LastItem == files[current_gen_num].items[Len(files[current_gen_num].items)]

\* C11: cache_did_flush leaves dirty_pages empty and the transactions as they
\* were, and a checkpoint that succeeds when no Write item was appended since
\* cache_did_flush appends a Checkpoint item with empty dirty_pages.
C11_FlushEmptiesDirtyPages ==
    /\ [](out.op = "cache_did_flush" => state.dirty_pages = EmptyMap)
    /\ []((out.op = "checkpoint" /\ out.ok /\ env.tracked /\ env.dirtied = {}) =>
            (IsCheckpoint(LastItem) /\ LastItem.dirty_pages = EmptyMap))
    /\ [][out'.op = "cache_did_flush" => state'.transactions = state.transactions]_vars

\* a checkpoint logged after cache_did_flush, with a Write item in the log, a
\* transaction open and no Write item appended since
C11_Witness ==
    /\ out.op = "checkpoint" /\ out.ok
    /\ env.tracked /\ env.dirtied = {}
    /\ state.transactions # EmptyMap
    /\ \E i \in AllIndices(files) : IsWrite(ItemAt(files, i))

\* the Write items of page p appended since the last cache_did_flush
DirtiedIndices(p) == {d[2] : d \in {e \in env.dirtied : e[1] = p}}

\* C12: between create and a crash, dirty_pages holds a page exactly when a
\* Write item for it was appended since the last cache_did_flush, and maps it
\* to the WalIndex of the earliest of these items.
C12_DirtyPagesEarliestWrite ==
    env.tracked =>
        /\ DOMAIN state.dirty_pages = {d[1] : d \in env.dirtied}
        /\ \A p \in DOMAIN state.dirty_pages :
              state.dirty_pages[p] = IndexMin(DirtiedIndices(p))

\* a page written twice since the last cache_did_flush, which came after an
\* earlier write to the same page
C12_Witness ==
    /\ env.tracked
    /\ \E p \in DOMAIN state.dirty_pages :
          /\ Cardinality(DirtiedIndices(p)) >= 2
          /\ \E i \in AllIndices(files) :
                /\ IsWrite(ItemAt(files, i))
                /\ ItemAt(files, i).page_address = p
                /\ IndexLT(i, state.dirty_pages[p])

\* the Write and Commit items of transaction t in the log
TransactionItems(fs, t) ==
    {i \in AllIndices(fs) :
        /\ ~IsCheckpoint(ItemAt(fs, i))
        /\ ItemAt(fs, i).transaction_id = t}

\* C13: every Write or Commit item of a transaction carries in
\* prev_transaction_item the WalIndex of the transaction's item before it, and
\* None when it is the transaction's first item (or a WalIndex in a generation
\* that cleanup has deleted since).
C13_TransactionChain ==
    \A i \in AllIndices(files) :
        ~IsCheckpoint(ItemAt(files, i)) =>
            LET item == ItemAt(files, i)
                earlier == {j \in TransactionItems(files, item.transaction_id) :
                               IndexLT(j, i)}
            IN  IF earlier = {}
                THEN \/ item.prev_transaction_item = None
                     \/ item.prev_transaction_item[1][1] \notin DOMAIN files
                ELSE item.prev_transaction_item = Some(IndexMax(earlier))

\* a transaction's item linked to its previous one across an item of another
\* transaction, itself linked to a first item
C13_Witness ==
    \E i \in AllIndices(files) :
        /\ ~IsCheckpoint(ItemAt(files, i))
        /\ ItemAt(files, i).prev_transaction_item # None
        /\ \E k \in AllIndices(files) :
              /\ ~IsCheckpoint(ItemAt(files, k))
              /\ ItemAt(files, k).transaction_id # ItemAt(files, i).transaction_id
              /\ IndexLT(ItemAt(files, i).prev_transaction_item[1], k)
              /\ IndexLT(k, i)

\* the threads whose push_raw_item has stored its item
Stored == {th \in Clients : /\ threads[th].op \in {"write", "commit"}
                            /\ threads[th].pc \in {"flush", "idle"}}

\* C14: with log_write, log_commit, undo and checkpoint interleaved, the
\* WalIndex a push_raw_item takes is the position its item is stored at: while
\* the item is not yet stored the thread holds the file's lock and the index is
\* the file's next offset, afterwards the item at that index is the thread's
\* own (so no index is given twice and offsets grow in append order), and the
\* last_index State records for a transaction is that index.
C14_IndexIsStoragePosition ==
    /\ \A th \in Clients :
          threads[th].pc = "append" =>
              /\ locks.file = Some(th)
              /\ threads[th].index =
                    Some(<<current_gen_num, next_offset(files[current_gen_num])>>)
    /\ \A th \in Stored :
          LET index == threads[th].index[1]
          IN  index[1] \in DOMAIN files =>
                  /\ index[2] <= Len(files[index[1]].items)
                  /\ ItemAt(files, index).kind
                        = (IF threads[th].op = "write" THEN "Write" ELSE "Commit")
                  /\ ItemAt(files, index).transaction_id = th
    /\ \A th \in Clients :
          (th \in DOMAIN state.transactions /\ threads[th].pc # "push") =>
              state.transactions[th].last_index = threads[th].index[1]

\* two threads have stored items in the same generation, behind the Checkpoint
\* item of a checkpoint task, and one of them is taking its next index
C14_Witness ==
    \E a, b \in Stored :
        /\ a # b
        /\ threads[a].index[1][1] = threads[b].index[1][1]
        /\ threads[a].index[1][1] = current_gen_num
        /\ current_gen_num > 0
        /\ \E i \in DOMAIN files[current_gen_num].items :
              IsCheckpoint(files[current_gen_num].items[i])

TransactionsOrdered(st) ==
    \A t \in DOMAIN st.transactions :
        st.transactions[t].first_gen <= st.transactions[t].last_index[1]

\* C15: every transaction State tracks has first_gen <= last_index.generation,
\* in the State of the running log (also after checkpoints) and in the State
\* recovery builds from the current generation's Checkpoint item and its
\* rescan.
C15_FirstGenNotAfterLastIndex ==
    /\ TransactionsOrdered(state)
    /\ (phase = "opened" /\ generations # <<>>) =>
          TransactionsOrdered(RecoveredState(files, current_gen_num))

\* recovery is about to run on a generation whose Checkpoint item seeds a
\* transaction begun in an older generation, and the rescan moves its last_index
C15_Witness ==
    /\ phase = "opened"
    /\ generations # <<>>
    /\ LET seed == read_initial_state(files[current_gen_num].items)
           st == RecoveredState(files, current_gen_num)
       IN  \E t \in DOMAIN st.transactions \cap DOMAIN seed.transactions :
              /\ st.transactions[t].last_index # seed.transactions[t].last_index
              /\ st.transactions[t].first_gen < st.transactions[t].last_index[1]

\* the transactions with a Write item in the log and no Commit item after their
\* last Write
OpenInLog(fs) ==
    {t \in Tids :
        \E i \in TransactionItems(fs, t) :
            /\ IsWrite(ItemAt(fs, i))
            /\ \A j \in TransactionItems(fs, t) :
                  IsCommit(ItemAt(fs, j)) => IndexLT(j, i)}

\* C16: while the log runs, a transaction id has an entry in State.transactions
\* exactly when a Write item of it has been appended and no Commit item of it
\* has been appended after that: log_write creates or updates the entry,
\* log_commit and undo's Commit remove it.
C16_EntryIffOpenInLog ==
    (env.tracked /\ phase = "running") =>
        DOMAIN state.transactions = OpenInLog(files)

\* C18: a log_write or log_commit whose append fails with an I/O error returns
\* the error and leaves State (transactions and dirty_pages) as it was before
\* the call.
C18_FailedAppendKeepsState ==
    (out.op = "error" /\ out.err = "File") => state = out.before

\* C17: whenever recovery can read the current generation (the log has been
\* opened on the files a crash left), that generation holds a Checkpoint item,
\* so read_initial_state finds the transactions that were open at rotation.
C17_CurrentGenerationHasCheckpoint ==
    (phase = "opened" /\ generations # <<>>) =>
        \E i \in DOMAIN files[current_gen_num].items :
            IsCheckpoint(files[current_gen_num].items[i])

NotInitialized == out.op = "error" /\ out.err = "WalNotInitialized"

\* C19: on an empty generation queue (a log opened on a folder with no WAL
\* files) log_write, log_commit and recover return WalNotInitialized; the call
\* appends no item, creates no file and leaves State as it was.
C19_EmptyQueueNotInitialized ==
    /\ [](NotInitialized =>
            (generations = <<>> /\ files = EmptyMap /\ state = DefaultState))
    /\ [][(out'.op = "error" /\ out'.err = "WalNotInitialized") =>
            (state' = state /\ files' = files /\ generations' = generations)]_vars

C19_Witness ==
    /\ NotInitialized
    /\ out.call = "log_write"
    /\ phase = "opened"
    /\ generations = <<>>

\* a step of the periodic task in which a checkpoint attempt ends in an error
AttemptFails == periodic'.failures = periodic.failures + 1

\* a step in which a Checkpoint item is appended or the queue is rotated
CheckpointStep ==
    \/ current_gen_num' # current_gen_num
    \/ generations' # generations
    \/ /\ current_gen_num \in DOMAIN files
       /\ current_gen_num \in DOMAIN files'
       /\ Len(files'[current_gen_num].items) > Len(files[current_gen_num].items)
       /\ IsCheckpoint(files'[current_gen_num].
                          items[Len(files'[current_gen_num].items)])

\* C20: a failed attempt of the periodic task is swallowed: the task is back
\* in timer.wait() and the log stays open, so the next tick starts another
\* attempt; the loop ends only when the Timer is cancelled, and then the task
\* does not checkpoint again and terminates.
C20_PeriodicTaskSwallowsAndStops ==
    /\ [][AttemptFails => (periodic'.pc = "wait" /\ phase' = phase)]_vars
    /\ [](periodic.pc = "done" => periodic.cancelled)
    /\ [][(periodic.cancelled /\ periodic.pc = "wait" /\ periodic'.pc # "wait")
            => periodic'.pc \in {"done", "none"}]_vars
    /\ [][(periodic.pc = "done" /\ phase' # "closed") =>
            (periodic'.pc = "done" /\ ~CheckpointStep)]_vars
    /\ (periodic.cancelled ~> periodic.pc \in {"done", "none"})

\* the Timer was cancelled after a failed attempt and a later attempt that
\* succeeded, and the task has ended
C20_Witness ==
    /\ periodic.pc = "done"
    /\ periodic.failures > 0
    /\ periodic.last = "ok"

\* C21: an append spawns a size-triggered checkpoint only when it leaves the
\* current generation at or above max_generation_size, and each generation
\* whose size crossed the threshold leads to one rotation: the log has rotated
\* no more often than generations have crossed it.
C21_OneRotationPerCrossing ==
    /\ \A i \in env.scheduling : i[2] >= max_generation_size
    /\ current_gen_num <= Cardinality({i[1] : i \in env.scheduling})

\* C22 as stated: before each reclaim fast holds at most fast_cap + 1 keys, and
\* the graveyard never holds more than graveyard_cap.
C22_QueuesBounded ==
    /\ out.op = "reclaim" => Len(out.before.fast) <= out.before.fast_cap + 1
    /\ Len(mgr.graveyard) <= mgr.graveyard_cap

\* C22 amended: the graveyard never holds more than graveyard_cap keys, with
\* fast_cap = floor(L/4) and graveyard_cap = floor(L/2); fast has no bound of
\* its own: access never takes a key out of fast, and a reclaim takes out one
\* key exactly when it finds more than fast_cap keys in it.
C22_GraveyardBoundedFastDrained ==
    /\ Len(mgr.graveyard) <= mgr.graveyard_cap
    /\ \E length \in 0 .. MaxLength :
          /\ mgr.fast_cap = length \div 4
          /\ mgr.graveyard_cap = length \div 2
    /\ out.op = "access" =>
          Len(mgr.fast) \in {Len(out.before.fast), Len(out.before.fast) + 1}
    /\ out.op = "reclaim" =>
          Len(mgr.fast) = (IF Len(out.before.fast) > out.before.fast_cap
                           THEN Len(out.before.fast) - 1 ELSE Len(out.before.fast))

\* a reclaim found fast with more than fast_cap + 1 keys and a full graveyard
C22_Witness ==
    /\ out.op = "reclaim"
    /\ Len(out.before.fast) > out.before.fast_cap + 1
    /\ out.before.graveyard_cap > 0
    /\ Len(out.before.graveyard) = out.before.graveyard_cap

\* a reclaim has just returned a key
Reclaimed == out.op = "reclaim" /\ out.ret # None

\* C23 as stated: right after a reclaim the key it returned is in none of fast,
\* slow and graveyard.
C23_ReclaimedInNoQueue ==
    Reclaimed =>
        /\ ~contains(mgr.fast, out.ret[1])
        /\ ~contains(mgr.slow, out.ret[1])
        /\ ~contains(mgr.graveyard, out.ret[1])

\* C23 amended: right after a reclaim the key it returned is in neither fast
\* nor slow; a key taken from fast is at the front of the graveyard (when
\* graveyard_cap > 0), and a key taken from slow stays in the graveyard if it
\* was there.
C23_ReclaimedLeavesFastAndSlow ==
    Reclaimed =>
        /\ ~contains(mgr.fast, out.ret[1])
        /\ ~contains(mgr.slow, out.ret[1])
        /\ (Len(out.before.fast) > out.before.fast_cap /\ mgr.graveyard_cap > 0) =>
              mgr.graveyard[1] = out.ret[1]
        /\ Len(out.before.fast) <= out.before.fast_cap =>
              mgr.graveyard = out.before.graveyard

\* a key was reclaimed from slow and is still in the graveyard
C23_Witness ==
    /\ Reclaimed
    /\ Len(out.before.fast) <= out.before.fast_cap
    /\ contains(mgr.graveyard, out.ret[1])

\* C24: fast is a FIFO: access admits a new key at its front and leaves every
\* queue as it is when the key is already in fast, so the tail is the key
\* admitted first; a reclaim that finds |fast| > fast_cap removes and returns
\* that tail and pushes it to the graveyard front, dropping the graveyard's
\* tail if it is over graveyard_cap; otherwise reclaim returns and removes the
\* tail of slow, or returns None when slow is empty.
C24_ReclaimOrder ==
    /\ (out.op = "access" /\ \E i \in DOMAIN out.before.fast :
                                out.before.fast[i] = out.item) => mgr = out.before
    /\ out.op = "access" =>
          \/ mgr.fast = out.before.fast
          \/ mgr.fast = <<out.item>> \o out.before.fast
    /\ (out.op = "reclaim" /\ Len(out.before.fast) > out.before.fast_cap) =>
          LET n == Len(out.before.fast)
              g == <<out.before.fast[n]>> \o out.before.graveyard
          IN  /\ out.ret = <<out.before.fast[n]>>
              /\ mgr.fast = SubSeq(out.before.fast, 1, n - 1)
              /\ mgr.graveyard = SubSeq(g, 1, IF Len(g) > mgr.graveyard_cap
                                              THEN Len(g) - 1 ELSE Len(g))
              /\ mgr.slow = out.before.slow
    /\ (out.op = "reclaim" /\ Len(out.before.fast) <= out.before.fast_cap) =>
          LET n == Len(out.before.slow)
          IN  /\ out.ret = IF n = 0 THEN <<>> ELSE <<out.before.slow[n]>>
              /\ mgr.slow = SubSeq(out.before.slow, 1, n - 1)
              /\ mgr.fast = out.before.fast
              /\ mgr.graveyard = out.before.graveyard

\* with fast_cap >= 1, a reclaim took the first-admitted of several keys of fast
C24_Witness ==
    /\ out.op = "reclaim"
    /\ out.before.fast_cap >= 1
    /\ Len(out.before.fast) > out.before.fast_cap
    /\ out.ret = <<out.before.fast[Len(out.before.fast)]>>
    /\ Len(mgr.fast) >= 1

InQueue(q, v) == \E i \in DOMAIN q : q[i] = v

\* q with v taken out and put at the front
MovedToFront(q, v) ==
    LET i == CHOOSE j \in DOMAIN q : q[j] = v
    IN  <<v>> \o SubSeq(q, 1, i - 1) \o SubSeq(q, i + 1, Len(q))

\* C25: an access of a key that is in the graveyard and in neither fast nor
\* slow puts it at the front of slow and leaves the graveyard as it is; an
\* access of a key in slow moves it to the front of slow, the other keys keeping
\* their order; so slow is ordered by last access and a reclaim that falls
\* through to slow returns its tail, the least recently accessed key.
C25_ResurrectionAndLru ==
    /\ (out.op = "access" /\ ~InQueue(out.before.fast, out.item)) =>
          /\ InQueue(out.before.slow, out.item) =>
                /\ mgr.slow = MovedToFront(out.before.slow, out.item)
                /\ mgr.fast = out.before.fast
                /\ mgr.graveyard = out.before.graveyard
          /\ (~InQueue(out.before.slow, out.item)
                /\ InQueue(out.before.graveyard, out.item)) =>
                /\ mgr.slow = <<out.item>> \o out.before.slow
                /\ mgr.fast = out.before.fast
                /\ mgr.graveyard = out.before.graveyard
    /\ (out.op = "reclaim" /\ Len(out.before.fast) <= out.before.fast_cap
          /\ out.before.slow # <<>>) =>
          /\ out.ret = <<out.before.slow[Len(out.before.slow)]>>
          /\ mgr.slow = SubSeq(out.before.slow, 1, Len(out.before.slow) - 1)

\* a reclaim fell through to a slow queue of several resurrected keys, whose
\* tail is still in the graveyard
C25_Witness ==
    /\ out.op = "reclaim"
    /\ Len(out.before.fast) <= out.before.fast_cap
    /\ Len(out.before.slow) >= 2
    /\ out.ret # None
    /\ InQueue(out.before.graveyard, out.ret[1])
    /\ InQueue(mgr.graveyard, mgr.slow[1])

NoDuplicates(q) == \A i, j \in DOMAIN q : q[i] = q[j] => i = j

\* C26: after any sequence of access/reclaim calls no key occurs twice in fast,
\* twice in slow or twice in graveyard.
C26_OneMembershipPerQueue ==
    /\ NoDuplicates(mgr.fast)
    /\ NoDuplicates(mgr.slow)
    /\ NoDuplicates(mgr.graveyard)

\* a key of slow has just been accessed again while slow and graveyard hold
\* several keys
C26_Witness ==
    /\ out.op = "access"
    /\ InQueue(out.before.slow, out.item)
    /\ Len(mgr.slow) >= 2
    /\ Len(mgr.graveyard) >= 2
\* ---- C27
\* C27 as stated: the descriptor cache never holds more descriptors than
\* max_num_open_segments.
C27_OpenSegmentsBounded ==
    storage # None =>
        Cardinality(storage.cache.descriptors) <= storage.cache.max_num_open_segments

\* ---- C28
\* C28 as stated: a read or write on page (s, p) that returns a segment's
\* result has made exactly one call on segment s, with the same operation,
\* page number, buffer and wal_index, and returns what that call returned; and
\* no segment was opened through the folder while it was in the descriptor
\* cache.
C28_OneSegmentCallNoReopen ==
    storage # None =>
        /\ (out.op \in {"read", "write"} /\ out.ok) =>
              /\ Len(out.calls) = 1
              /\ out.calls[1].op = out.call.op
              /\ out.calls[1].segment_num = out.call.segment_num
              /\ out.calls[1].page_num = out.call.page_num
              /\ out.calls[1].buf = out.call.buf
              /\ out.calls[1].wal_index = out.call.wal_index
              /\ out.ret = out.calls[1].ret
        /\ \A o \in storage.opened : ~o.cached

\* ---- C29
\* what the claim says load returns for a whole header of these fields
HeaderVerdict(header, page_size, native) ==
    IF header.magic # WAL_MAGIC THEN "NotAWalFile"
    ELSE IF header.byte_order \notin {0, 1} THEN "Corrupted"
    ELSE IF header.byte_order # native THEN "ByteOrderMismatch"
    ELSE IF header.page_size # page_size THEN "PageSizeMismatch"
    ELSE "Ok"

\* C29: load of a file that holds a whole header fails with NotAWalFile on a
\* wrong magic, else Corrupted on a byte_order byte other than 0 and 1, else
\* ByteOrderMismatch on the other machine's byte order, else PageSizeMismatch
\* on another page_size than the configured one, the first of these when
\* several apply; a file written by init loads with init's page_size, and the
\* Wal then has that page_size and log_start at the end of the header.
C29_HeaderValidationOrder ==
    (bwal # None /\ out.op = "load" /\ Len(bwal.file.data) >= HEADER_SIZE) =>
        /\ out.err = HeaderVerdict(bwal.header, out.page_size, bwal.native)
        /\ out.err = "Ok" =>
              /\ bwal.wal # None
              /\ bwal.wal.page_size = out.page_size
              /\ bwal.wal.log_start = HEADER_SIZE
        /\ out.err # "Ok" => bwal.wal = None

\* a load met a header with a wrong byte_order byte and another page_size than
\* the configured one, and reported the byte order
C29_Witness ==
    /\ bwal # None
    /\ out.op = "load"
    /\ Len(bwal.file.data) >= HEADER_SIZE
    /\ bwal.header.magic = WAL_MAGIC
    /\ bwal.header.byte_order = 1 - bwal.native
    /\ bwal.header.page_size # out.page_size
    /\ out.err = "ByteOrderMismatch"

\* ---- C30
RECURSIVE Concatenated(_, _)
Concatenated(writes, native) ==
    IF writes = <<>> THEN <<>>
    ELSE PageId_as_bytes(writes[1][1], native) \o writes[1][2]
             \o Concatenated(Tail(writes), native)

\* C30 as stated: while a Wal is loaded the bytes of its file after the header
\* are the committed writes one after the other, whatever is buffered; and an
\* iteration yields those writes in order, and has yielded all of them when it
\* ends.
C30_FileIsCommittedWrites ==
    (bwal # None /\ bwal.wal # None) =>
        /\ SubSeq(bwal.file.data, HEADER_SIZE + 1, Len(bwal.file.data))
               = Concatenated(bwal.committed, bwal.native)
        /\ bwal.it # None =>
              /\ Len(bwal.it.items) <= Len(bwal.committed)
              /\ \A i \in DOMAIN bwal.it.items :
                     bwal.it.items[i] = <<"Ok", bwal.committed[i][1], bwal.committed[i][2]>>
              /\ bwal.it.ended => Len(bwal.it.items) = Len(bwal.committed)

\* ---- C31
\* C31 as stated: an iteration over a file whose last item is torn yields no
\* error: it yields the whole items and then none.
C31_TornTailEndsIteration ==
    (bwal # None /\ bwal.torn /\ bwal.it # None) =>
        \A i \in DOMAIN bwal.it.items : bwal.it.items[i][1] = "Ok"

\* ---- C33
\* C33 as stated: no two threads are between their miss on the same segment
\* and their store_descriptor at once, the folder is asked for a segment only
\* by a thread that will store it into a cache that lacks it, and
\* store_descriptor is never called for a segment the cache holds.
C33_MissOpensAndStoresOnce ==
    storage # None =>
        /\ \A t1, t2 \in StorageThreads :
               (/\ t1 # t2
                /\ storage.pc[t1] # None
                /\ storage.pc[t2] # None
                /\ storage.pc[t1].at = "store"
                /\ storage.pc[t2].at = "store")
               => storage.pc[t1].call.segment_num # storage.pc[t2].call.segment_num
        /\ (out.op \in {"read", "write"} /\ out.ok /\ out.opened # <<>>) => ~out.present

\* ---- C34
\* the offsets of the compensation Writes the last undo or recover appended
CompensationOffsets ==
    {i \in DOMAIN files[current_gen_num].items :
        /\ i > out.pre_len
        /\ files[current_gen_num].items[i].kind = "Write"
        /\ files[current_gen_num].items[i].from = None}

\* C34: after undo or recover, the calls of handle for compensations are, in
\* order, one per compensation Write the call appended: each carries the
\* WalIndex of that appended item (past everything the log held before), its
\* page and offset, and as buf the item's to, which is the from of a Write
\* of the log; and when an append failed, handle was called for the
\* compensations appended before it and not for the one that failed.
C34_CompensationLoggedBeforeHandled ==
    out.op \in {"undo", "recover"} =>
        /\ {out.ops[k].index : k \in UndoOpPositions}
               = {<<current_gen_num, i>> : i \in CompensationOffsets}
        /\ \A k \in UndoOpPositions :
              LET op == out.ops[k]
                  item == files[current_gen_num].items[op.index[2]] IN
              /\ op.index[1] = current_gen_num
              /\ item.page_address = op.page_address
              /\ item.offset = op.offset
              /\ item.to = op.buf
              /\ \E g \in DOMAIN files : \E i \in DOMAIN files[g].items :
                    /\ files[g].items[i].kind = "Write"
                    /\ files[g].items[i].from = Some(op.buf)
                    /\ files[g].items[i].page_address = op.page_address
              /\ \A j \in UndoOpPositions :
                    j < k => out.ops[j].index[2] < op.index[2]
        /\ "err" \in DOMAIN out =>
              \A k \in DOMAIN out.ops : out.ops[k].buf # out.failed.to

\* an undo appended a compensation Write behind a log that held other items
\* and handed its index and the original's from to handle
C34_Witness ==
    /\ out.op = "undo"
    /\ "err" \notin DOMAIN out
    /\ out.pre_len > 2
    /\ Len(out.ops) = 1
    /\ out.ops[1].index = <<current_gen_num, out.pre_len + 1>>
    /\ CompensationOffsets = {out.pre_len + 1}

\* ---- C37
\* C37: the generation queue holds strictly increasing generation numbers, and
\* when it is not empty its last one is current_gen_num, which is what
\* current_generation asserts.
C37_QueueIncreasingEndsAtCurrent ==
    /\ \A i, j \in DOMAIN generations : i < j => generations[i] < generations[j]
    /\ generations # <<>> => generations[Len(generations)] = current_gen_num

\* a queue rebuilt by open from the files of several generations, after a
\* cleanup had removed the oldest
C37_Witness ==
    /\ phase = "opened"
    /\ Len(generations) >= 2
    /\ generations[1] > 0
    /\ generations[Len(generations)] = current_gen_num

\* ---- C32
\* C32: the State mutex is never held while I/O is performed: whenever a step
\* appends to, flushes, opens or deletes a file, no thread holds the State
\* lock.
C32_NoIoUnderStateLock ==
    [][files' # files => locks.state = None]_vars

\* ---- C35
\* what State is after the events of env.handled, taken in their order: an item
\* is handled, cache_did_flush clears the dirty pages, undo and recover leave
\* the State they computed under the write lock
RECURSIVE Replay(_)
Replay(events) ==
    IF events = <<>> THEN DefaultState
    ELSE LET e == events[Len(events)]
             st == Replay(SubSeq(events, 1, Len(events) - 1))
         IN  CASE e[1] = "item" -> handle_item(st, e[2], e[3])
               [] e[1] = "flush" -> state_cache_did_flush(st)
               [] e[1] = "set" -> e[2]

NotFlush(e) == e[1] # "flush"

\* C35: the snapshot of a Checkpoint item is State after handling exactly the
\* items appended before it: the items State has handled when the Checkpoint
\* is appended are the items the files hold, in the same order and at the
\* indices they were handled with, all of them before the Checkpoint's index,
\* and the snapshot is what handling them (and the cache flushes between them)
\* gives.
C35_SnapshotMatchesLogPosition ==
    out.op = "log_checkpoint" =>
        /\ SelectSeq(out.handled, NotFlush) = out.appended
        /\ out.item = CheckpointItem(Replay(out.handled))
        /\ \A k \in DOMAIN out.appended :
              out.appended[k][1] = "item" => IndexLT(out.appended[k][2], out.index)

\* ---- C36
LockRank(l) == CASE l = "queue" -> 1 [] l = "file" -> 2 [] l = "state" -> 3

\* the locks a thread holds
Held(th) ==
    {l \in {"queue"} : th \in locks.readers \/ locks.writer = Some(th)}
    \cup {l \in {"file"} : locks.file = Some(th)}
    \cup {l \in {"state"} : locks.state = Some(th)}

\* the locks a thread's next step takes
Wanted(th) ==
    LET t == threads[th] IN
    CASE t.pc \in {"create", "handle"} -> {"state"}
      [] t.pc \in {"read", "write_lock"} -> {"queue"}
      [] t.pc \in {"push", "flush"} -> {"file"}
      [] t.pc = "exclusive" -> {"file", "state"}
      [] t.pc = "log_checkpoint" /\ t.acquired < Len(log_checkpoint_locks) ->
             {log_checkpoint_locks[t.acquired + 1]}
      [] OTHER -> {}

InCall(th) == threads[th].pc \notin {"idle", "done"}

\* a shared lock of the queue is not granted while a writer holds it, nor,
\* with a lock that prefers writers, while one waits for it
SharedFree ==
    /\ locks.writer = None
    /\ \A o \in DOMAIN threads : threads[o].pc # "write_lock"

\* the thread's next step can be taken, whichever way the queue's lock treats
\* readers that arrive while a writer waits
Runnable(th) ==
    LET t == threads[th] IN
    CASE t.pc = "write_lock" -> locks.readers = {} /\ locks.writer = None
      [] t.pc = "read" -> SharedFree
      [] t.pc = "log_checkpoint" /\ Wanted(th) = {"queue"} -> SharedFree
      [] OTHER -> InCall(th) /\ \A l \in Wanted(th) : CanLock(l, locks)

\* C36: the calls never deadlock: a thread that waits for a lock holds only
\* locks that come before it in the order queue, file, State, and whenever
\* some thread is inside a call, some thread inside a call can take its next
\* step.
C36_LockOrderNoDeadlock ==
    /\ \A th \in DOMAIN threads : \A h \in Held(th) : \A w \in Wanted(th) :
          LockRank(h) < LockRank(w)
    /\ (\E th \in DOMAIN threads : InCall(th)) =>
          \E th \in DOMAIN threads : InCall(th) /\ Runnable(th)

\* the three locks contended at once: a client holds the file lock and waits
\* for State, which is taken; the checkpoint task holds the queue shared and
\* waits for the file; another client waits for the queue's exclusive lock
C36_Witness ==
    /\ \E th \in Clients : threads[th].pc = "handle" /\ locks.file = Some(th)
    /\ \E th \in CheckpointTasks :
          /\ threads[th].pc = "log_checkpoint"
          /\ th \in locks.readers
          /\ Wanted(th) = {"file"}
    /\ \E th \in Clients : threads[th].pc = "write_lock"

====
